---- MODULE Spec2Model ----
(***************************************************************************)
(* SurfSense backend: SSRF-safe URL validation (app/utils/url_validator.py) *)
(* and the redirect-following fetch of the RSS connector                   *)
(* (app/connectors/rss_connector.py).                                      *)
(*                                                                         *)
(* Text is modelled as a sequence of tokens.  A token is a maximal piece   *)
(* of a string that the code never looks inside: a scheme prefix           *)
(* ("http://"), a separator ("/", "?", "#", "@", ":", "::", ".", "[",     *)
(* "]", "%", " "), a decimal or hexadecimal number ("127", "fe80", "2f"),  *)
(* or a word ("example", "localhost").  The inputs are drawn from texts    *)
(* whose tokenisation is unambiguous, so that prefix, substring and        *)
(* membership tests of the code are the same tests on tokens.              *)
(***************************************************************************)
EXTENDS Integers, Sequences, FiniteSets, TLC

(***************************************************************************)
(* Generic helpers on token sequences.                                     *)
(***************************************************************************)
None == <<"<None>">>

Min(a, b) == IF a < b THEN a ELSE b

Max(a, b) == IF a > b THEN a ELSE b

RECURSIVE Pow2(_)
Pow2(n) == IF n = 0 THEN 1 ELSE 2 * Pow2(n - 1)

\* index of the first token of s that is in set S, 0 when there is none
FirstIn(s, S) ==
    IF \E i \in 1..Len(s) : s[i] \in S
    THEN CHOOSE i \in 1..Len(s) : s[i] \in S /\ \A j \in 1..(i - 1) : s[j] \notin S
    ELSE 0

\* index of the last token of s that is in set S, 0 when there is none
LastIn(s, S) ==
    IF \E i \in 1..Len(s) : s[i] \in S
    THEN CHOOSE i \in 1..Len(s) : s[i] \in S /\ \A j \in (i + 1)..Len(s) : s[j] \notin S
    ELSE 0

\* s[from..], the empty sequence when from is past the end
From(s, from) == SubSeq(s, from, Len(s))

\* s[..upto-1] when upto > 0, the whole of s when upto = 0 (separator absent)
Before(s, upto) == IF upto = 0 THEN s ELSE SubSeq(s, 1, upto - 1)

\* str.lower() on the tokens that carry upper-case letters
LowerTok(t) ==
    CASE t = "LOCALHOST" -> "localhost"
      [] t = "LocalHost" -> "localhost"
      [] t = "EXAMPLE"   -> "example"
      [] t = "FE80"      -> "fe80"
      [] t = "HTTP://"   -> "http://"
      [] OTHER           -> t

Lower(s) == [i \in 1..Len(s) |-> LowerTok(s[i])]

\* str.strip(): leading and trailing blanks removed
RECURSIVE Strip(_)
Strip(s) ==
    IF s = <<>> THEN s
    ELSE IF Head(s) = " " THEN Strip(Tail(s))
    ELSE IF s[Len(s)] = " " THEN Strip(SubSeq(s, 1, Len(s) - 1))
    ELSE s

(***************************************************************************)
(* Numbers written in the texts of the model.                              *)
(***************************************************************************)
DecVal ==
    "0" :> 0 @@ "1" :> 1 @@ "5" :> 5 @@ "8" :> 8 @@ "10" :> 10 @@ "16" :> 16 @@ "31" :> 31
    @@ "32" :> 32 @@ "34" :> 34 @@ "93" :> 93 @@ "126" :> 126 @@ "127" :> 127
    @@ "128" :> 128 @@ "168" :> 168 @@ "169" :> 169 @@ "172" :> 172
    @@ "184" :> 184 @@ "192" :> 192 @@ "216" :> 216 @@ "223" :> 223
    @@ "224" :> 224 @@ "239" :> 239 @@ "240" :> 240 @@ "254" :> 254
    @@ "255" :> 255 @@ "256" :> 256

HexVal ==
    "0" :> 0 @@ "1" :> 1 @@ "2" :> 2 @@ "db8" :> 3512 @@ "2001" :> 8193
    @@ "fbff" :> 64511 @@ "fc00" :> 64512 @@ "fd00" :> 64768 @@ "fdff" :> 65023
    @@ "fe00" :> 65024 @@ "fe7f" :> 65151 @@ "fe80" :> 65152 @@ "febf" :> 65215
    @@ "fec0" :> 65216 @@ "ffff" :> 65535 @@ "FE80" :> 65152

(***************************************************************************)
(* ipaddress.ip_address / ip_network of the standard library.              *)
(***************************************************************************)
NotAnIP == [ver |-> 0, addr |-> <<>>]

\* IPv4Address(text): four decimal octets separated by dots
ParseIPv4(t) ==
    IF /\ Len(t) = 7
       /\ \A i \in {2, 4, 6} : t[i] = "."
       /\ \A i \in {1, 3, 5, 7} : t[i] \in DOMAIN DecVal /\ DecVal[t[i]] <= 255
    THEN [ver |-> 4, addr |-> <<DecVal[t[1]], DecVal[t[3]], DecVal[t[5]], DecVal[t[7]]>>]
    ELSE NotAnIP

\* the hextets of a ":"-separated part, or <<-1>> when the part is malformed
HextetsOf(p) ==
    IF p = <<>> THEN <<>>
    ELSE IF /\ Len(p) % 2 = 1
            /\ \A i \in 1..Len(p) :
                  IF i % 2 = 1 THEN p[i] \in DOMAIN HexVal ELSE p[i] = ":"
    THEN [k \in 1..((Len(p) + 1) \div 2) |-> HexVal[p[2 * k - 1]]]
    ELSE <<-1>>

Zeros(n) == [k \in 1..n |-> 0]

\* the address written as left "::" right, or as left alone without "::"
IPv6Of(dc, left, right) ==
    IF left = <<-1>> \/ right = <<-1>> THEN NotAnIP
    ELSE IF dc = 0
    THEN IF Len(left) = 8 THEN [ver |-> 6, addr |-> left] ELSE NotAnIP
    ELSE IF Len(left) + Len(right) <= 7
    THEN [ver |-> 6,
          addr |-> left \o Zeros(8 - Len(left) - Len(right)) \o right]
    ELSE NotAnIP

\* the text split at its "::", which stands at index dc (0: there is none)
IPv6Split(t, dc) ==
    IPv6Of(dc, HextetsOf(Before(t, dc)),
           IF dc = 0 THEN <<>> ELSE HextetsOf(From(t, dc + 1)))

\* IPv6Address(text): eight hextets, one run of zeros may be written "::"
ParseIPv6(t) == IF t = <<>> THEN NotAnIP ELSE IPv6Split(t, FirstIn(t, {"::"}))

\* ipaddress.ip_address(text); NotAnIP stands for the ValueError
ip_address(t) ==
    IF ParseIPv4(t) # NotAnIP THEN ParseIPv4(t) ELSE ParseIPv6(t)

IsIPLiteral(t) == ip_address(t) # NotAnIP

Net(ver, addr, prefix) == [ver |-> ver, addr |-> addr, prefix |-> prefix]

\* ip in network: same version and the first prefix bits agree
InNetwork(ip, net) ==
    /\ ip.ver = net.ver
    /\ LET w == IF ip.ver = 4 THEN 8 ELSE 16
       IN  \A i \in 1..Len(ip.addr) :
              LET bits == Max(0, Min(w, net.prefix - (i - 1) * w))
                  sh   == Pow2(w - bits)
              IN  ip.addr[i] \div sh = net.addr[i] \div sh

\* the table with 172.16.0.0/12 narrowed to 172.16.0.0/16
BLOCKED_IP_RANGES_narrow ==
    << Net(4, <<0, 0, 0, 0>>, 8),
       Net(4, <<10, 0, 0, 0>>, 8),
       Net(4, <<127, 0, 0, 0>>, 8),
       Net(4, <<169, 254, 0, 0>>, 16),
       Net(4, <<172, 16, 0, 0>>, 16),
       Net(4, <<192, 168, 0, 0>>, 16),
       Net(4, <<224, 0, 0, 0>>, 4),
       Net(4, <<240, 0, 0, 0>>, 4),
       Net(6, <<0, 0, 0, 0, 0, 0, 0, 1>>, 128),
       Net(6, <<65152, 0, 0, 0, 0, 0, 0, 0>>, 10),
       Net(6, <<64512, 0, 0, 0, 0, 0, 0, 0>>, 7) >>

BLOCKED_IP_RANGES ==
    << Net(4, <<0, 0, 0, 0>>, 8),
       Net(4, <<10, 0, 0, 0>>, 8),
       Net(4, <<127, 0, 0, 0>>, 8),
       Net(4, <<169, 254, 0, 0>>, 16),
       Net(4, <<172, 16, 0, 0>>, 12),
       Net(4, <<192, 168, 0, 0>>, 16),
       Net(4, <<224, 0, 0, 0>>, 4),
       Net(4, <<240, 0, 0, 0>>, 4),
       Net(6, <<0, 0, 0, 0, 0, 0, 0, 1>>, 128),
       Net(6, <<65152, 0, 0, 0, 0, 0, 0, 0>>, 10),
       Net(6, <<64512, 0, 0, 0, 0, 0, 0, 0>>, 7) >>

BLOCKED_HOSTNAMES ==
    { <<"localhost">>,
      <<"0", ".", "0", ".", "0", ".", "0">>,
      <<"127", ".", "0", ".", "0", ".", "1">>,
      <<"[", "::", "]">>,
      <<"[", "::", "1", "]">>,
      <<"metadata", ".", "google", ".", "internal">>,
      <<"169", ".", "254", ".", "169", ".", "254">> }

\* any(ip in blocked_range for blocked_range in BLOCKED_IP_RANGES)
InBlockedRange(ip) ==
    /\ ip # NotAnIP
    /\ \E k \in 1..Len(BLOCKED_IP_RANGES) : InNetwork(ip, BLOCKED_IP_RANGES[k])

is_ip_blocked(ip_str) == InBlockedRange(ip_address(ip_str))

(***************************************************************************)
(* urllib.parse: urlparse, unquote, urljoin.                               *)
(***************************************************************************)
HttpSchemes == {"http://", "https://"}

SchemeToks == HttpSchemes \cup {"ftp://", "file://", "gopher://", "HTTP://"}

\* url.startswith(("http://", "https://"))
StartsWithHttp(url) == url # <<>> /\ url[1] \in HttpSchemes

\* the scheme of "http://" is "http": the token with its "://" removed
SchemeName(tok) ==
    CASE tok = "http://"   -> "http"
      [] tok = "https://"  -> "https"
      [] tok = "HTTP://"   -> "http"
      [] tok = "ftp://"    -> "ftp"
      [] tok = "file://"   -> "file"
      [] tok = "gopher://" -> "gopher"
      [] OTHER             -> ""

HasScheme(url) == url # <<>> /\ url[1] \in SchemeToks

\* what follows "scheme://"
AfterScheme(url) == IF HasScheme(url) THEN Tail(url) ELSE url

\* netloc ends at the first "/", "?" or "#"
Netloc(url) == Before(AfterScheme(url), FirstIn(AfterScheme(url), {"/", "?", "#"}))

\* path, query and fragment together
AfterNetloc(url) == From(AfterScheme(url), Len(Netloc(url)) + 1)

NoFragment(s) == Before(s, FirstIn(s, {"#"}))

\* the path of s, which is path and query together
PathPart(s) == Before(s, FirstIn(s, {"?"}))

\* the query of s, which is path and query together
QueryPart(s) == IF FirstIn(s, {"?"}) = 0 THEN <<>> ELSE From(s, FirstIn(s, {"?"}) + 1)

PathOf(url) == PathPart(NoFragment(AfterNetloc(url)))

QueryOf(url) == QueryPart(NoFragment(AfterNetloc(url)))

\* the text after the colon at index colon of rest, empty when colon is 0
PortAfter(rest, colon) == IF colon = 0 THEN <<>> ELSE From(rest, colon + 1)

\* host ":" port
PlainHostInfo(hostinfo, col) ==
    [host |-> Before(hostinfo, col), port |-> PortAfter(hostinfo, col)]

\* "[" host "]" ":" port, given what follows the "[" and the index of "]" in it
BracketHostInfo(inside, cb) ==
    [host |-> Before(inside, cb),
     port |-> IF cb = 0 THEN <<>>
              ELSE PortAfter(From(inside, cb + 1),
                             FirstIn(From(inside, cb + 1), {":"}))]

\* SplitResult._hostinfo of a netloc without its user info
HostInfoOf(hostinfo, ob) ==
    IF ob # 0
    THEN BracketHostInfo(From(hostinfo, ob + 1),
                         FirstIn(From(hostinfo, ob + 1), {"]"}))
    ELSE PlainHostInfo(hostinfo, FirstIn(hostinfo, {":", "::"}))

\* netloc.rpartition("@"): the user info dropped
NoUserInfo(netloc) == From(netloc, LastIn(netloc, {"@"}) + 1)

\* SplitResult._hostinfo: user info dropped, brackets unwrapped, port split off
HostInfo(url) ==
    HostInfoOf(NoUserInfo(Netloc(url)), FirstIn(NoUserInfo(Netloc(url)), {"["}))

\* the host lower-cased up to a "%", None when it is empty
LowerHost(h, z) ==
    IF h = <<>> THEN None
    ELSE IF z = 0 THEN Lower(h)
    ELSE Lower(SubSeq(h, 1, z - 1)) \o From(h, z)

\* the hostname of a _hostinfo
HostnameIn(info) == LowerHost(info.host, FirstIn(info.host, {"%"}))

\* SplitResult.hostname: None when empty, lower-cased up to a "%"
HostnameOf(url) == HostnameIn(HostInfo(url))

\* SplitResult.port (the texts of the model carry numeric, non-zero ports)
PortOf(url) == HostInfo(url).port

\* urlsplit raises ValueError on unbalanced brackets and on a bracketed host
\* that is not an IP address
BadBrackets(netloc, ob, cb) ==
    \/ (ob # 0) # (cb # 0)
    \/ ob # 0 /\ cb # 0 /\ ~IsIPLiteral(SubSeq(netloc, ob + 1, cb - 1))

UrlparseRaises(url) ==
    BadBrackets(Netloc(url), FirstIn(Netloc(url), {"["}), FirstIn(Netloc(url), {"]"}))

\* the ParseResult of url, given its _hostinfo and its path and query together
ParseResult(url, info, rest) ==
    [scheme   |-> IF HasScheme(url) THEN SchemeName(url[1]) ELSE "",
     stok     |-> IF HasScheme(url) THEN LowerTok(url[1]) ELSE "",
     hostname |-> HostnameIn(info),
     port     |-> info.port,
     path     |-> PathPart(rest),
     query    |-> QueryPart(rest)]

urlparse(url) == ParseResult(url, HostInfo(url), NoFragment(AfterNetloc(url)))

\* the characters written by the percent-escapes of the model
PctVal ==
    "2f" :> "/" @@ "2F" :> "/" @@ "2e" :> "." @@ "25" :> "%" @@ "41" :> "A"
    @@ "40" :> "@" @@ "3f" :> "?" @@ "20" :> " "

\* unquote: one left-to-right pass, a decoded character is not read again
RECURSIVE unquote(_)
unquote(s) ==
    IF s = <<>> THEN <<>>
    ELSE IF s[1] = "%" /\ Len(s) >= 2 /\ s[2] \in DOMAIN PctVal
    THEN <<PctVal[s[2]]>> \o unquote(From(s, 3))
    ELSE <<s[1]>> \o unquote(Tail(s))

\* a reference without scheme joined to the parts of the base
JoinRelative(bhead, bpath, bquery, url) ==
    IF url[1] = "/" THEN bhead \o url
    ELSE IF url[1] = "?" THEN bhead \o bpath \o url
    ELSE IF url[1] = "#"
    THEN bhead \o bpath \o (IF bquery = <<>> THEN <<>> ELSE <<"?">> \o bquery) \o url
    ELSE bhead \o (IF LastIn(bpath, {"/"}) = 0 THEN <<"/">>
                   ELSE SubSeq(bpath, 1, LastIn(bpath, {"/"}))) \o url

\* a join that appends the reference to the base instead of resolving it
urljoin_append(base, url) ==
    IF url = <<>> THEN base
    ELSE IF HasScheme(url) THEN url
    ELSE base \o url

\* urljoin(base, url) for an absolute base; the texts of the model have no
\* "." or ".." path segments and no "//" network-path references
urljoin(base, url) ==
    IF url = <<>> THEN base
    ELSE IF HasScheme(url) THEN url
    ELSE JoinRelative(<<base[1]>> \o Netloc(base), PathOf(base), QueryOf(base), url)

(***************************************************************************)
(* DNS as seen through loop.getaddrinfo: an answer is a non-empty list of  *)
(* address texts, or the resolution fails (socket.gaierror).               *)
(***************************************************************************)
MaxAnswers == 2

Pub1 == <<"93", ".", "184", ".", "216", ".", "34">>

Pub2 == <<"2001", ":", "db8", "::", "1">>

Priv1 == <<"10", ".", "0", ".", "0", ".", "1">>

IPPool == {Pub1, Pub2, Priv1}

GaiError == <<<<"gaierror">>>>

\* getaddrinfo raised something else than socket.gaierror
ResolverError == <<<<"OSError">>>>

DnsAnswers ==
    UNION {[1..n -> IPPool] : n \in 1..MaxAnswers}
    \cup {GaiError, ResolverError}

\* the names the resolver knows; any other name fails to resolve
ExampleCom == <<"example", ".", "com">>

EvilCom == <<"evil", ".", "com">>

Domains == {ExampleCom, EvilCom}

Loopback == <<"127", ".", "0", ".", "0", ".", "1">>

HexLoopback == <<"0x7f", ".", "0x0", ".", "0x0", ".", "0x1">>

\* the address the C library reads in a numeric host that is not dotted
\* decimal (inet_aton: hexadecimal, octal and short forms), None for a name
inet_aton(hostname) == IF hostname = HexLoopback THEN Loopback ELSE None

\* the addresses getaddrinfo may give
AddressPool == IPPool \cup {Loopback}

\* a resolver that looks every host up as a name
getaddrinfo_names(hostname, ans) ==
    IF hostname \in Domains \cup {HexLoopback} THEN ans ELSE GaiError

\* loop.getaddrinfo(hostname, None) when the resolver currently answers ans:
\* a numeric host is not looked up, it is read as an address or refused
getaddrinfo(hostname, ans) ==
    IF hostname \in Domains \/ ans = ResolverError THEN ans
    ELSE IF inet_aton(hostname) # None /\ ans # GaiError
    THEN <<inet_aton(hostname)>>
    ELSE GaiError

(***************************************************************************)
(* url_validator.py                                                        *)
(***************************************************************************)
Accept(url, ips) ==
    [kind |-> "accept", status |-> 200, detail |-> <<>>, url |-> url, ips |-> ips]

\* raise HTTPException(status_code=400, detail=...)
Reject(detail) ==
    [kind |-> "reject", status |-> 400, detail |-> detail, url |-> None, ips |-> None]

\* return await validate_url_safe_for_ssrf(decoded_url, allow_private)
Recurse(url) ==
    [kind |-> "recurse", status |-> 0, detail |-> <<>>, url |-> url, ips |-> None]

\* list(dict.fromkeys(xs)): duplicates removed, first occurrences kept in order
Dedup(xs) ==
    LET keep == {i \in 1..Len(xs) : \A j \in 1..(i - 1) : xs[j] # xs[i]}
        rank(i) == Cardinality({j \in keep : j <= i})
    IN  [k \in 1..Cardinality(keep) |-> xs[CHOOSE i \in keep : rank(i) = k]]

\* an error of the resolver other than gaierror taken for an empty answer
CheckAnswer_failopen(hostname, addr_info, bad) ==
    IF addr_info = GaiError
    THEN Reject(<<"Unable to resolve hostname: ">> \o hostname)
    ELSE IF addr_info = ResolverError
    THEN Accept(None, <<>>)
    ELSE IF bad # 0
    THEN Reject(<<"Hostname ">> \o hostname
                \o <<" resolves to blocked IP address ">> \o addr_info[bad])
    ELSE Accept(None, Dedup(addr_info))

\* lines 88-119 on the answer of getaddrinfo, bad being the index of its
\* first blocked address (0: there is none): gaierror, a blocked address and
\* any other exception end in HTTPException 400
CheckAnswer(hostname, addr_info, bad) ==
    IF addr_info = GaiError
    THEN Reject(<<"Unable to resolve hostname: ">> \o hostname)
    ELSE IF addr_info = ResolverError
    THEN Reject(<<"Error resolving hostname ">> \o hostname \o <<": ", "OSError">>)
    ELSE IF bad # 0
    THEN Reject(<<"Hostname ">> \o hostname
                \o <<" resolves to blocked IP address ">> \o addr_info[bad])
    ELSE Accept(None, Dedup(addr_info))

\* index of the first blocked address of the answer, 0 when there is none
FirstBlocked(addr_info) ==
    FirstIn(addr_info, {ip \in AddressPool : is_ip_blocked(ip)})

\* the resolver checking only the first address of the answer
resolve_and_check_hostname_first(hostname, ans) ==
    CheckAnswer(hostname, getaddrinfo(hostname, ans),
                IF FirstBlocked(getaddrinfo(hostname, ans)) = 1 THEN 1 ELSE 0)

\* resolve_and_check_hostname, given what getaddrinfo answers
resolve_and_check_hostname(hostname, ans) ==
    CheckAnswer(hostname, getaddrinfo(hostname, ans),
                FirstBlocked(getaddrinfo(hostname, ans)))

\* re.match(r"\[([0-9a-fA-F:]+)\]", hostname): the text inside the brackets,
\* None when the hostname does not begin with a bracketed group
Ipv6Group(hostname, cb) ==
    IF /\ hostname # <<>> /\ hostname[1] = "[" /\ cb > 2
       /\ \A i \in 2..(cb - 1) : hostname[i] \in DOMAIN HexVal \cup {":", "::"}
    THEN SubSeq(hostname, 2, cb - 1)
    ELSE None

Ipv6Match(hostname) == Ipv6Group(hostname, FirstIn(hostname, {"]"}))

\* the group matched is an address of a blocked range
BlockedGroup(group) == group # None /\ is_ip_blocked(group)

\* "localhost" in hostname or hostname.startswith("127.")
IsLocalhostVariation(hostname) ==
    \/ \E i \in 1..Len(hostname) : hostname[i] = "localhost"
    \/ Len(hostname) >= 2 /\ hostname[1] = "127" /\ hostname[2] = "."

\* line 226 is reached and the resolver will be asked
ToResolve == [kind |-> "resolve", status |-> 0, detail |-> <<>>, url |-> None, ips |-> None]

\* the hostname resolved whatever allow_private says
CheckHostname_resolve(hostname, allow_private) ==
    IF hostname \in BLOCKED_HOSTNAMES
    THEN Reject(<<"Access to ">> \o hostname \o <<" is not allowed">>)
    ELSE IF IsLocalhostVariation(hostname)
    THEN Reject(<<"Access to localhost is not allowed">>)
    ELSE IF ~allow_private /\ is_ip_blocked(hostname)
    THEN Reject(<<"Access to private IP addresses is not allowed">>)
    ELSE IF ~allow_private /\ BlockedGroup(Ipv6Match(hostname))
    THEN Reject(<<"Access to private IP addresses is not allowed">>)
    ELSE IF ~IsIPLiteral(hostname)
    THEN ToResolve
    ELSE Accept(None, None)

\* lines 181-226 up to the call of the resolver
CheckHostname(hostname, allow_private) ==
    IF hostname \in BLOCKED_HOSTNAMES
    THEN Reject(<<"Access to ">> \o hostname \o <<" is not allowed">>)
    ELSE IF IsLocalhostVariation(hostname)
    THEN Reject(<<"Access to localhost is not allowed">>)
    ELSE IF ~allow_private /\ is_ip_blocked(hostname)
    THEN Reject(<<"Access to private IP addresses is not allowed">>)
    ELSE IF ~allow_private /\ BlockedGroup(Ipv6Match(hostname))
    THEN Reject(<<"Access to private IP addresses is not allowed">>)
    ELSE IF ~allow_private /\ ~IsIPLiteral(hostname)
    THEN ToResolve
    ELSE Accept(None, None)

\* lines 165-179 on the result of urlparse
CheckParsed(parsed, allow_private) ==
    IF parsed.scheme \notin {"http", "https"}
    THEN Reject(<<"Only http and https schemes are allowed">>)
    ELSE IF parsed.hostname = None
    THEN Reject(<<"URL must contain a valid hostname">>)
    ELSE CheckHostname(parsed.hostname, allow_private)

\* lines 150-163 on the stripped URL
CheckUrl(url, allow_private) ==
    IF ~StartsWithHttp(url)
    THEN Reject(<<"URL must start with http:// or https://">>)
    ELSE IF UrlparseRaises(url)
    THEN Reject(<<"Invalid URL format: ">>)
    ELSE CheckParsed(urlparse(url), allow_private)

\* lines 145-226 up to the call of the resolver: a rejection, ToResolve, or
\* an acceptance without validated_ips
BeforeDns(url_in, allow_private) ==
    IF url_in = <<>>
    THEN Reject(<<"Invalid URL provided">>)
    ELSE CheckUrl(Strip(url_in), allow_private)

\* the pass needs the resolver: not rejected before line 226 and the hostname
\* is not an address
NeedsDns(url_in, allow_private) == BeforeDns(url_in, allow_private).kind = "resolve"

\* the URL accepted as it is, its decoded form never validated
Decoded_unchecked(url, decoded, validated_ips) == Accept(url, validated_ips)

\* lines 229-238: the percent-decoding, the recursion on the decoded URL
Decoded(url, decoded, validated_ips) ==
    IF (\E i \in 1..Len(url) : url[i] = "%") /\ decoded # url
    THEN Recurse(decoded)
    ELSE Accept(url, validated_ips)

\* lines 226-238, given the result of the resolver when it was asked
AfterDns(url, resolved) ==
    IF resolved.kind = "reject" THEN resolved
    ELSE Decoded(url, unquote(url), resolved.ips)

\* lines 145-238 once the checks before the resolver are made
Validated(url, pre, ans) ==
    IF pre.kind = "reject" THEN pre
    ELSE IF pre.kind = "resolve"
    THEN AfterDns(url, resolve_and_check_hostname(HostnameOf(url), ans))
    ELSE AfterDns(url, pre)

\* one activation of validate_url_safe_for_ssrf: it rejects, accepts, or
\* calls itself on the percent-decoded URL; ans is the resolver's answer
validate_url_safe_for_ssrf(url_in, allow_private, ans) ==
    Validated(Strip(url_in), BeforeDns(url_in, allow_private), ans)

(***************************************************************************)
(* rss_connector.py: RSSConnector._safe_get_with_redirects                 *)
(***************************************************************************)
max_redirects == 5

RedirectStatuses == {301, 302, 303, 307, 308}

Statuses == RedirectStatuses \cup {200, 304, 404, 500}

\* format_ip_for_url: an IPv6 address is written in brackets inside a URL
format_ip_for_url(ip) ==
    IF ip_address(ip).ver = 6 THEN <<"[">> \o ip \o <<"]">> ELSE ip

\* a list that is neither None nor empty
Truthy(xs) == xs # None /\ xs # <<>>

\* f"{scheme}://{ip}" [":" port] (path or "/") ["?" query]
PinnedUrl(parsed, ip) ==
    <<parsed.stok>> \o format_ip_for_url(ip)
    \o (IF parsed.port # <<>> THEN <<":">> \o parsed.port ELSE <<>>)
    \o (IF parsed.path # <<>> THEN parsed.path ELSE <<"/">>)
    \o (IF parsed.query # <<>> THEN <<"?">> \o parsed.query ELSE <<>>)

\* current_url after the initial validation (lines 104-114)
InitialTarget(validated_url, ips) ==
    IF Truthy(ips) THEN PinnedUrl(urlparse(validated_url), ips[1]) ELSE validated_url

\* headers["Host"] after the initial validation (line 117)
InitialHost(validated_url, ips, host) ==
    IF Truthy(ips) THEN urlparse(validated_url).hostname ELSE host

\* current_url after a redirect target was validated (lines 149-165)
RedirectTarget(url, ips) ==
    IF Truthy(ips) THEN PinnedUrl(urlparse(url), ips[1]) ELSE url

\* headers["Host"] after a redirect target was validated (lines 161-165)
RedirectHost(url, ips, host) ==
    IF Truthy(ips) THEN urlparse(url).hostname ELSE host

\* the loop test off by one
LoopContinues_le(count) == count <= max_redirects

\* while redirect_count < self.max_redirects
LoopContinues(count) == count < max_redirects

\* every 3xx status taken for a redirect
IsRedirect_any3xx(status) == status \in 300..399

\* response.status_code in (301, 302, 303, 307, 308)
IsRedirect(status) == status \in RedirectStatuses

\* str(response.url): httpx reports the URL the request was sent to
ResponseUrl(request_url) == request_url

\* str(n) for the numbers the messages print
DecText(n) == CHOOSE t \in DOMAIN DecVal : DecVal[t] = n

NoOutcome == [kind |-> "none", status |-> 0, detail |-> <<>>]

HTTPException(status, detail) ==
    [kind |-> "HTTPException", status |-> status, detail |-> detail]

Returned(status) == [kind |-> "response", status |-> status, detail |-> <<>>]

TransportError == [kind |-> "httpx.RequestError", status |-> 0, detail |-> <<>>]

ValueError == [kind |-> "ValueError", status |-> 0, detail |-> <<>>]

TooManyRedirects ==
    HTTPException(400, <<"Too many redirects (max ", DecText(max_redirects), ")">>)

MissingLocation ==
    HTTPException(500, <<"Server returned redirect without Location header">>)

InvalidInitial(detail) ==
    HTTPException(400, <<"Invalid initial URL for redirect handling: ">> \o detail)

(***************************************************************************)
(* Inputs.                                                                 *)
(***************************************************************************)
\* URLs given to validate_url_safe_for_ssrf
ValidateUrls ==
    {
      <<>>,
      <<" ">>,
      <<"https://", "example", ".", "com", "/", "feed">>,
      <<" ", "https://", "example", ".", "com", "/", "feed", " ">>,
      <<"http://", "example", ".", "com">>,
      <<"http://", "EXAMPLE", ".", "com", ":", "8080", "/", "feed", "?", "q=1">>,
      <<"https://", "evil", ".", "com", "/", "x">>,
      <<"ftp://", "example", ".", "com", "/", "x">>,
      <<"file://", "/", "etc">>,
      <<"gopher://", "example", ".", "com">>,
      <<"HTTP://", "example", ".", "com">>,
      <<"example", ".", "com", "/", "feed">>,
      <<"http://">>,
      <<"http://", "/", "feed">>,
      <<"http://", "?", "q=1">>,
      <<"http://", "localhost">>,
      <<"http://", "LOCALHOST", "/", "x">>,
      <<"http://", "my", "localhost", ".", "com">>,
      <<"http://", "localhost", ":", "8080", "/", "admin">>,
      <<"http://", "127", ".", "0", ".", "0", ".", "1">>,
      <<"http://", "127", ".", "0", ".", "0", ".", "1", "%", "2e", "/", "x">>,
      <<"http://", "127", ".", "0", ".", "0", ".", "1", ".", "/", "x">>,
      <<"http://", "127", ".", "1">>,
      <<"http://", "0x7f", ".", "0x0", ".", "0x0", ".", "0x1">>,
      <<"http://", "127", ".", "8", ".", "8", ".", "8">>,
      <<"http://", "0", ".", "0", ".", "0", ".", "0">>,
      <<"http://", "0", ".", "1", ".", "1", ".", "1">>,
      <<"http://", "10", ".", "0", ".", "0", ".", "1", "/", "feed">>,
      <<"http://", "10", ".", "255", ".", "255", ".", "255">>,
      <<"http://", "169", ".", "254", ".", "169", ".", "254", "/", "latest">>,
      <<"http://", "169", ".", "254", ".", "0", ".", "1">>,
      <<"http://", "169", ".", "255", ".", "0", ".", "1">>,
      <<"http://", "172", ".", "16", ".", "0", ".", "1">>,
      <<"http://", "172", ".", "31", ".", "255", ".", "255">>,
      <<"http://", "172", ".", "32", ".", "0", ".", "1">>,
      <<"http://", "172", ".", "8", ".", "0", ".", "1">>,
      <<"http://", "192", ".", "168", ".", "1", ".", "1">>,
      <<"http://", "192", ".", "169", ".", "1", ".", "1">>,
      <<"http://", "224", ".", "0", ".", "0", ".", "1">>,
      <<"http://", "239", ".", "1", ".", "1", ".", "1">>,
      <<"http://", "240", ".", "0", ".", "0", ".", "1">>,
      <<"http://", "255", ".", "255", ".", "255", ".", "255">>,
      <<"http://", "223", ".", "255", ".", "255", ".", "255">>,
      <<"http://", "126", ".", "255", ".", "255", ".", "255">>,
      <<"http://", "128", ".", "0", ".", "0", ".", "1">>,
      <<"http://", "256", ".", "0", ".", "0", ".", "1">>,
      <<"https://", "93", ".", "184", ".", "216", ".", "34", "/", "feed">>,
      <<"https://", "8", ".", "8", ".", "8", ".", "8", "/", "y">>,
      <<"http://", "[", "::", "1", "]", "/", "x">>,
      <<"http://", "[", "::", "]", "/">>,
      <<"http://", "[", "::", "2", "]">>,
      <<"http://", "[", "fe80", "::", "1", "]">>,
      <<"http://", "[", "FE80", "::", "1", "]">>,
      <<"http://", "[", "febf", "::", "1", "]">>,
      <<"http://", "[", "fec0", "::", "1", "]">>,
      <<"http://", "[", "fe7f", "::", "1", "]">>,
      <<"http://", "[", "fc00", "::", "1", "]">>,
      <<"http://", "[", "fd00", "::", "1", "]">>,
      <<"http://", "[", "fdff", ":", "ffff", "::", "1", "]">>,
      <<"http://", "[", "fe00", "::", "1", "]">>,
      <<"http://", "[", "fbff", "::", "1", "]">>,
      <<"http://", "[", "2001", ":", "db8", "::", "1", "]", ":", "8080", "/", "feed", "?", "q=1">>,
      <<"http://", "[", "0", ":", "0", ":", "0", ":", "0", ":", "0", ":", "0", ":", "0", ":", "1", "]">>,
      <<"http://", "[", "::", "1">>,
      <<"http://", "[", "example", "]">>,
      <<"http://", "metadata", ".", "google", ".", "internal">>,
      <<"http://", "metadata", ".", "google", ".", "internal", "/", "computeMetadata">>,
      <<"http://", "user", "@", "localhost", "/">>,
      <<"http://", "user", "@", "example", ".", "com", "/">>,
      <<"https://", "example", ".", "com", "/", "a", "%", "2f", "b">>,
      <<"https://", "example", ".", "com", "/", "a", "%", "25", "2f", "b">>,
      <<"https://", "example", ".", "com", "/", "a", "?", "q=", "%", "41">>,
      <<"https://", "example", ".", "com", "/", "a", "%", "zz">>,
      <<"https://", "example", ".", "com", "/", "a", "%", "3f", "q=1">>,
      <<"http://", "8", ".", "8", ".", "8", ".", "8", "%", "2f", "@", "evil", ".", "com", "/">>,
      <<"http://", "example", ".", "com", "%", "2f", "x", "@", "evil", ".", "com", "/", "p">>,
      <<"http://", "example", ".", "com", "%", "2f", "@", "10", ".", "0", ".", "0", ".", "1", "/">>,
      <<"http://", "10", ".", "0", ".", "0", ".", "1", "%", "2f", "@", "example", ".", "com", "/">>,
      <<"http://", "example", ".", "com", "%", "40", "10", ".", "0", ".", "0", ".", "1", "/">>,
      <<"http://", "localhost", "%", "2f", "@", "example", ".", "com", "/">>,
      <<"https://", "example", ".", "com", "/", "feed", "#", "frag">>,
      <<"https://", "unknown", ".", "org", "/">>,
      <<"http://", "example", ".", "com", "%", "2f", "@", "8", ".", "8", ".", "8", ".", "8", "/">>,
      <<"http://", "8", ".", "8", ".", "8", ".", "8", "/", "a", "%", "2f", "b">> }

\* URLs given to _safe_get_with_redirects
FetchUrls ==
    { <<"https://", "example", ".", "com", "/", "feed">>,
      <<"https://", "93", ".", "184", ".", "216", ".", "34", "/", "feed">>,
      <<"http://", "10", ".", "0", ".", "0", ".", "1", "/", "feed">>,
      <<"https://", "example", ".", "com", "/", "a", "%", "2f", "b">>,
      <<"http://", "EXAMPLE", ".", "com", ":", "8080", "/", "feed", "?", "q=1">>,
      <<"ftp://", "example", ".", "com", "/", "x">> }

\* the Host header the caller put in headers, None when it put none
CallerHosts == {None, ExampleCom}

\* Location header values a server may send
Locations ==
    { <<"/", "new-feed">>,
      <<"item">>,
      <<"https://", "evil", ".", "com", "/", "x">>,
      <<"http://", "192", ".", "168", ".", "1", ".", "1", "/", "internal">>,
      <<"https://", "8", ".", "8", ".", "8", ".", "8", "/", "y">>,
      <<"https://", "example", ".", "com", "/", "feed">>,
      <<"http://", "8", ".", "8", ".", "8", ".", "8", "%", "2f", "@", "evil", ".", "com", "/">>,
      <<"ftp://", "evil", ".", "com", "/", "x">> }

(***************************************************************************)
(* State.                                                                  *)
(***************************************************************************)
VARIABLES
    pc,              \* "idle", "validating", "requesting", "done"
    ctx,             \* caller of the validation: "direct", "initial", "redirect"
    vurl,            \* url of the running activation of validate_url_safe_for_ssrf
    vallow,          \* its allow_private
    varg,            \* url given to the validator by its caller
    vans,            \* what getaddrinfo answered last in this call, None before
    vres,            \* what a direct call of the validator returned or raised
    ndns,            \* getaddrinfo calls made by this call of the validator
    npass,           \* activations of the validator in this call
    headers_host,    \* headers["Host"], None when the key is absent
    current_url,
    redirect_url,
    redirect_count,
    outcome,         \* response returned or exception raised by the fetch
    hop,             \* the hop in progress: its index, its URL, its Location
    checked,         \* what the validation of the hop in progress returned
    fresh,           \* current_url was validated and is not yet requested
    contacted,       \* address the last request was sent to
    nreq,            \* GET requests issued
    nredir,          \* responses with a redirect status received
    task,            \* the fetch_feed task that is running, 0 outside gather
    frames,          \* the local variables of the suspended fetch_feed tasks
    session,         \* the clock, the JWT and the surfsense_auth cookie of a user
    transcript       \* the call of get_youtube_transcript in progress

vars ==
    <<pc, ctx, vurl, vallow, varg, vans, vres, ndns, npass, headers_host,
      current_url, redirect_url, redirect_count, outcome, hop, checked, fresh,
      contacted, nreq, nredir, task, frames, session, transcript>>

taskVars == <<task, frames>>

otherVars == <<session, transcript>>

fetchVars ==
    <<headers_host, current_url, redirect_url, redirect_count, outcome, hop,
      checked, fresh, contacted, nreq, nredir>>

NoResult == [kind |-> "none", status |-> 0, detail |-> <<>>, url |-> None, ips |-> None]

NoCheck == [url |-> None, ips |-> None]

NoHop == [idx |-> 0, url |-> None, location |-> None]

\* the local variables before anything is called
InitLocals ==
    /\ pc = "idle" /\ ctx = "none"
    /\ vurl = <<>> /\ vallow = FALSE /\ varg = None /\ vans = None
    /\ vres = NoResult /\ ndns = 0 /\ npass = 0
    /\ headers_host = None
    /\ current_url = None /\ redirect_url = None /\ redirect_count = 0
    /\ outcome = NoOutcome /\ hop = NoHop /\ checked = NoCheck
    /\ fresh = FALSE /\ contacted = None
    /\ nreq = 0 /\ nredir = 0

\* nobody is logged in, the clock stands at 0
NoSession ==
    [now |-> 0, exp |-> 0, cookie_expires |-> 0, last_request |-> 0,
     active |-> FALSE, status_code |-> 0]

\* get_youtube_transcript has neither returned nor raised
NoTranscriptResult == [kind |-> "none", segments |-> <<>>, method |-> ""]

\* get_youtube_transcript is not running
NoTranscript ==
    [pc |-> "idle", video_id |-> "", whisper_enabled |-> FALSE,
     calls |-> <<>>, api_error |-> "", whisper_error |-> "",
     result |-> NoTranscriptResult]

InitOther == session = NoSession /\ transcript = NoTranscript

Init ==
    /\ InitLocals
    /\ task = 0 /\ frames = <<>>
    /\ InitOther

(***************************************************************************)
(* validate_url_safe_for_ssrf, one activation per step: the DNS lookup is  *)
(* its only suspension point, and the resolver may answer differently each *)
(* time it is asked.                                                       *)
(***************************************************************************)
AnswersFor(url, allow_private) ==
    IF NeedsDns(url, allow_private) THEN DnsAnswers ELSE {GaiError}

Lookups(url, allow_private) == IF NeedsDns(url, allow_private) THEN 1 ELSE 0

\* the last answer of getaddrinfo after an activation that was given ans
Seen(url, allow_private, ans, before) ==
    IF NeedsDns(url, allow_private) THEN getaddrinfo(HostnameOf(Strip(url)), ans)
    ELSE before

\* a call of the validator begins
Enter(url, allow_private) ==
    /\ vurl' = url
    /\ varg' = url
    /\ vallow' = allow_private
    /\ vans' = None
    /\ ndns' = 0
    /\ npass' = 0
    /\ pc' = "validating"

\* an activation of the validator ran with the answer ans
Ran(ans) ==
    /\ vans' = Seen(vurl, vallow, ans, vans)
    /\ ndns' = ndns + Lookups(vurl, vallow)
    /\ npass' = npass + 1

\* await validate_url_safe_for_ssrf(url, allow_private), called directly
CallValidate ==
    /\ UNCHANGED taskVars
    /\ UNCHANGED otherVars
    /\ pc = "idle"
    /\ \E url \in ValidateUrls, allow \in BOOLEAN : Enter(url, allow)
    /\ ctx' = "direct"
    /\ UNCHANGED vres
    /\ UNCHANGED fetchVars

\* line 236: the activation calls itself on the decoded URL
ValidateRecurse ==
    /\ UNCHANGED taskVars
    /\ UNCHANGED otherVars
    /\ pc = "validating"
    /\ \E ans \in AnswersFor(vurl, vallow) :
          \E r \in {validate_url_safe_for_ssrf(vurl, vallow, ans)} :
              /\ r.kind = "recurse"
              /\ vurl' = r.url
              /\ Ran(ans)
    /\ UNCHANGED <<pc, ctx, vallow, varg, vres>>
    /\ UNCHANGED fetchVars

\* the direct call returns (url, validated_ips) or raises HTTPException
ValidateReturn ==
    /\ UNCHANGED taskVars
    /\ UNCHANGED otherVars
    /\ pc = "validating" /\ ctx = "direct"
    /\ \E ans \in AnswersFor(vurl, vallow) :
          \E r \in {validate_url_safe_for_ssrf(vurl, vallow, ans)} :
              /\ r.kind # "recurse"
              /\ vres' = r
              /\ Ran(ans)
    /\ pc' = "done"
    /\ UNCHANGED <<ctx, vurl, vallow, varg>>
    /\ UNCHANGED fetchVars

(***************************************************************************)
(* RSSConnector._safe_get_with_redirects.  Its suspension points are the   *)
(* validations and client.get; a step runs from one to the next.           *)
(***************************************************************************)
\* await self._safe_get_with_redirects(client, url, headers), up to line 96
Call_safe_get ==
    /\ UNCHANGED taskVars
    /\ UNCHANGED otherVars
    /\ pc = "idle"
    /\ \E url \in FetchUrls, host \in CallerHosts :
          /\ Enter(url, FALSE)
          /\ headers_host' = host
          /\ hop' = [idx |-> 1, url |-> url, location |-> None]
    /\ ctx' = "initial"
    /\ UNCHANGED <<vres, current_url, redirect_url, redirect_count, outcome,
                   checked, fresh, contacted, nreq, nredir>>

\* the rejection of the initial URL ignored: the request is made all the same
RejectInitial_ignore ==
    /\ UNCHANGED taskVars
    /\ UNCHANGED otherVars
    /\ pc = "validating" /\ ctx = "initial"
    /\ \E ans \in AnswersFor(vurl, vallow) :
          \E r \in {validate_url_safe_for_ssrf(vurl, vallow, ans)} :
              /\ r.kind = "reject"
              /\ Ran(ans)
    /\ current_url' = vurl
    /\ pc' = "requesting"
    /\ UNCHANGED <<ctx, vurl, vallow, varg, vres, headers_host, outcome,
                   redirect_url, redirect_count, hop, checked, fresh,
                   contacted, nreq, nredir>>

\* lines 97-101: the initial URL is rejected
RejectInitial ==
    /\ UNCHANGED taskVars
    /\ UNCHANGED otherVars
    /\ pc = "validating" /\ ctx = "initial"
    /\ \E ans \in AnswersFor(vurl, vallow) :
          \E r \in {validate_url_safe_for_ssrf(vurl, vallow, ans)} :
              /\ r.kind = "reject"
              /\ outcome' = InvalidInitial(r.detail)
              /\ Ran(ans)
    /\ pc' = "done"
    /\ UNCHANGED <<ctx, vurl, vallow, varg, vres, headers_host, current_url,
                   redirect_url, redirect_count, hop, checked, fresh,
                   contacted, nreq, nredir>>

\* the loop test of line 121 and, when it fails, lines 169-173
LoopOrRaise(count) ==
    IF LoopContinues(count)
    THEN pc' = "requesting" /\ outcome' = outcome
    ELSE pc' = "done" /\ outcome' = TooManyRedirects

\* lines 103-121: the initial URL is accepted, the request is pinned
AcceptInitial ==
    /\ UNCHANGED taskVars
    /\ UNCHANGED otherVars
    /\ pc = "validating" /\ ctx = "initial"
    /\ \E ans \in AnswersFor(vurl, vallow) :
          \E r \in {validate_url_safe_for_ssrf(vurl, vallow, ans)} :
              /\ r.kind = "accept"
              /\ current_url' = InitialTarget(r.url, r.ips)
              /\ headers_host' = InitialHost(r.url, r.ips, headers_host)
              /\ checked' = [url |-> r.url, ips |-> r.ips]
              /\ Ran(ans)
    /\ fresh' = TRUE
    /\ redirect_count' = 0
    /\ LoopOrRaise(0)
    /\ UNCHANGED <<ctx, vurl, vallow, varg, vres, redirect_url, hop,
                   contacted, nreq, nredir>>

\* the addresses a connection to the host of url may reach: the address the
\* URL names, or whatever the resolver answers when the connection is made
Contactable(url) ==
    IF IsIPLiteral(HostnameOf(url)) THEN {HostnameOf(url)} ELSE IPPool

\* lines 132-146: the Location of a redirect is resolved, its validation begins
FollowRedirect(location) ==
    /\ redirect_url' = urljoin(ResponseUrl(current_url), location)
    /\ Enter(redirect_url', FALSE)
    /\ hop' = [idx |-> hop.idx + 1, url |-> redirect_url', location |-> location]
    /\ checked' = NoCheck
    /\ ctx' = "redirect"
    /\ outcome' = outcome

\* the fetch ends with result
Finish(result) ==
    /\ outcome' = result
    /\ pc' = "done"
    /\ UNCHANGED <<ctx, vurl, vallow, varg, vans, ndns, npass, redirect_url,
                   hop, checked>>

\* as Response, without the test of line 134: an absent Location is joined
\* as the empty reference
Response_noloc(status) ==
    \/ /\ ~IsRedirect(status)
       /\ Finish(Returned(status))
       /\ UNCHANGED nredir
    \/ \E location \in Locations \cup {<<>>} :
          /\ IsRedirect(status)
          /\ FollowRedirect(location)
          /\ nredir' = nredir + 1

\* lines 128-146: what a response of the given status leads to
Response(status) ==
    \/ \* a response that is not a redirect is returned
       /\ ~IsRedirect(status)
       /\ Finish(Returned(status))
       /\ UNCHANGED nredir
    \/ \* a redirect without Location
       /\ IsRedirect(status)
       /\ Finish(MissingLocation)
       /\ nredir' = nredir + 1
    \/ \* a redirect: its target is resolved and validated
       \E location \in Locations :
          /\ IsRedirect(status)
          /\ FollowRedirect(location)
          /\ nredir' = nredir + 1

\* as client_get, with a request that failed in the transport issued again
client_get_retry ==
    /\ UNCHANGED taskVars
    /\ UNCHANGED otherVars
    /\ pc = "requesting"
    /\ UNCHANGED <<vres, headers_host, current_url, redirect_count>>
    /\ IF ~StartsWithHttp(current_url)
       THEN /\ Finish(ValueError)
            /\ UNCHANGED <<fresh, contacted, nreq, nredir>>
       ELSE /\ nreq' = nreq + 1
            /\ fresh' = FALSE
            /\ \E addr \in Contactable(current_url) : contacted' = addr
            /\ \/ /\ pc' = "requesting"
                  /\ UNCHANGED <<ctx, vurl, vallow, varg, vans, ndns, npass,
                                 redirect_url, hop, checked, outcome, nredir>>
               \/ /\ nreq >= 1
                  /\ Finish(TransportError)
                  /\ UNCHANGED nredir
               \/ \E status \in Statuses : Response(status)

\* lines 123-146: one request and what its response leads to
client_get ==
    /\ UNCHANGED taskVars
    /\ UNCHANGED otherVars
    /\ pc = "requesting"
    /\ UNCHANGED <<vres, headers_host, current_url, redirect_count>>
    /\ IF ~StartsWithHttp(current_url)
       THEN /\ Finish(ValueError)
            /\ UNCHANGED <<fresh, contacted, nreq, nredir>>
       ELSE /\ nreq' = nreq + 1
            /\ fresh' = FALSE
            /\ \E addr \in Contactable(current_url) : contacted' = addr
            /\ \/ \* the transport fails: httpx.RequestError
                  /\ Finish(TransportError)
                  /\ UNCHANGED nredir
               \/ \E status \in Statuses : Response(status)

\* the rejection of a redirect target logged and ignored
RejectRedirect_swallow ==
    /\ UNCHANGED taskVars
    /\ UNCHANGED otherVars
    /\ pc = "validating" /\ ctx = "redirect"
    /\ \E ans \in AnswersFor(vurl, vallow) :
          \E r \in {validate_url_safe_for_ssrf(vurl, vallow, ans)} :
              /\ r.kind = "reject"
              /\ Ran(ans)
    /\ current_url' = redirect_url
    /\ redirect_count' = redirect_count + 1
    /\ LoopOrRaise(redirect_count + 1)
    /\ UNCHANGED <<ctx, vurl, vallow, varg, vres, headers_host, redirect_url,
                   hop, checked, fresh, contacted, nreq, nredir>>

\* the redirect target validated only after it was requested
RejectRedirect_late ==
    /\ UNCHANGED taskVars
    /\ UNCHANGED otherVars
    /\ pc = "validating" /\ ctx = "redirect"
    /\ \E ans \in AnswersFor(vurl, vallow) :
          \E r \in {validate_url_safe_for_ssrf(vurl, vallow, ans)} :
              /\ r.kind = "reject"
              /\ outcome' = HTTPException(r.status, r.detail)
              /\ Ran(ans)
    /\ nreq' = nreq + 1
    /\ pc' = "done"
    /\ UNCHANGED <<ctx, vurl, vallow, varg, vres, headers_host, current_url,
                   redirect_url, redirect_count, hop, checked, fresh,
                   contacted, nredir>>

\* _validate_redirect_url re-raises the HTTPException of the validator
RejectRedirect ==
    /\ UNCHANGED taskVars
    /\ UNCHANGED otherVars
    /\ pc = "validating" /\ ctx = "redirect"
    /\ \E ans \in AnswersFor(vurl, vallow) :
          \E r \in {validate_url_safe_for_ssrf(vurl, vallow, ans)} :
              /\ r.kind = "reject"
              /\ outcome' = HTTPException(r.status, r.detail)
              /\ Ran(ans)
    /\ pc' = "done"
    /\ UNCHANGED <<ctx, vurl, vallow, varg, vres, headers_host, current_url,
                   redirect_url, redirect_count, hop, checked, fresh,
                   contacted, nreq, nredir>>

\* as AcceptRedirect, without line 167: the redirect is not counted
AcceptRedirect_nocount ==
    /\ UNCHANGED taskVars
    /\ UNCHANGED otherVars
    /\ pc = "validating" /\ ctx = "redirect"
    /\ \E ans \in AnswersFor(vurl, vallow) :
          \E r \in {validate_url_safe_for_ssrf(vurl, vallow, ans)} :
              /\ r.kind = "accept"
              /\ current_url' = RedirectTarget(redirect_url, r.ips)
              /\ headers_host' = RedirectHost(redirect_url, r.ips, headers_host)
              /\ checked' = [url |-> r.url, ips |-> r.ips]
              /\ Ran(ans)
    /\ fresh' = TRUE
    /\ redirect_count' = redirect_count
    /\ LoopOrRaise(redirect_count)
    /\ UNCHANGED <<ctx, vurl, vallow, varg, vres, redirect_url, hop,
                   contacted, nreq, nredir>>

\* lines 148-167, then the loop test: the redirect target is accepted
AcceptRedirect ==
    /\ UNCHANGED taskVars
    /\ UNCHANGED otherVars
    /\ pc = "validating" /\ ctx = "redirect"
    /\ \E ans \in AnswersFor(vurl, vallow) :
          \E r \in {validate_url_safe_for_ssrf(vurl, vallow, ans)} :
              /\ r.kind = "accept"
              /\ current_url' = RedirectTarget(redirect_url, r.ips)
              /\ headers_host' = RedirectHost(redirect_url, r.ips, headers_host)
              /\ checked' = [url |-> r.url, ips |-> r.ips]
              /\ Ran(ans)
    /\ fresh' = TRUE
    /\ redirect_count' = redirect_count + 1
    /\ LoopOrRaise(redirect_count + 1)
    /\ UNCHANGED <<ctx, vurl, vallow, varg, vres, redirect_url, hop,
                   contacted, nreq, nredir>>

Next ==
    \/ Call_safe_get
    \/ ValidateRecurse
    \/ RejectInitial
    \/ AcceptInitial
    \/ client_get
    \/ RejectRedirect
    \/ AcceptRedirect

Spec == Init /\ [][Next]_vars

NextValidate ==
    \/ CallValidate
    \/ ValidateRecurse
    \/ ValidateReturn

SpecValidate == Init /\ [][NextValidate]_vars

(***************************************************************************)
(* RSSConnector.fetch_all_feeds: asyncio.gather runs one fetch_feed        *)
(* coroutine per feed on the event loop.  One task runs at a time, from    *)
(* one suspension point (a DNS lookup, client.get) to the next; the local  *)
(* variables of a suspended task wait in its frame.  The object shared by  *)
(* the tasks, self, is only read (feed_urls, timeout, max_redirects).      *)
(***************************************************************************)
\* self.feed_urls
feed_urls ==
    << <<"https://", "example", ".", "com", "/", "a", "%", "2f", "b">>,
       <<"https://", "evil", ".", "com", "/", "x">> >>

Tasks == 1..Len(feed_urls)

\* redirects followed by each feed of the gathered fetches
MaxFeedRedirects == 1

\* what the resolver and the servers answer to the gathered fetches
FeedAnswers == {<<Pub1>>, <<Pub2, Pub1>>, <<Pub1, Priv1>>}

FeedStatuses == {200, 302, 404}

FeedLocations ==
    { <<"/", "new-feed">>,
      <<"http://", "192", ".", "168", ".", "1", ".", "1", "/", "internal">> }

InFeedBounds ==
    /\ nredir <= MaxFeedRedirects
    /\ vans = None \/ vans = GaiError \/ vans \in FeedAnswers
    /\ hop.location \in FeedLocations \cup {None}
    /\ outcome.kind = "response" => outcome.status \in FeedStatuses

\* the local variables of the running task
Frame ==
    [pc |-> pc,
     ctx |-> ctx,
     vurl |-> vurl,
     vallow |-> vallow,
     varg |-> varg,
     vans |-> vans,
     vres |-> vres,
     ndns |-> ndns,
     npass |-> npass,
     headers_host |-> headers_host,
     current_url |-> current_url,
     redirect_url |-> redirect_url,
     redirect_count |-> redirect_count,
     outcome |-> outcome,
     hop |-> hop,
     checked |-> checked,
     fresh |-> fresh,
     contacted |-> contacted,
     nreq |-> nreq,
     nredir |-> nredir]

\* the frame of a task that has not begun
IdleFrame ==
    [pc |-> "idle", ctx |-> "none", vurl |-> <<>>, vallow |-> FALSE,
     varg |-> None, vans |-> None, vres |-> NoResult, ndns |-> 0, npass |-> 0,
     headers_host |-> None, current_url |-> None, redirect_url |-> None,
     redirect_count |-> 0, outcome |-> NoOutcome, hop |-> NoHop,
     checked |-> NoCheck, fresh |-> FALSE, contacted |-> None,
     nreq |-> 0, nredir |-> 0]

\* the place in frames of the task that is running
Running == [IdleFrame EXCEPT !.pc = "running"]

\* a task resumed with the redirect counter left by the task before it, as
\* if the counter were an attribute of self
Restore_shared(f) ==
    /\ pc' = f.pc
    /\ ctx' = f.ctx
    /\ vurl' = f.vurl
    /\ vallow' = f.vallow
    /\ varg' = f.varg
    /\ vans' = f.vans
    /\ vres' = f.vres
    /\ ndns' = f.ndns
    /\ npass' = f.npass
    /\ headers_host' = f.headers_host
    /\ current_url' = f.current_url
    /\ redirect_url' = f.redirect_url
    /\ redirect_count' = redirect_count
    /\ outcome' = f.outcome
    /\ hop' = f.hop
    /\ checked' = f.checked
    /\ fresh' = f.fresh
    /\ contacted' = f.contacted
    /\ nreq' = f.nreq
    /\ nredir' = f.nredir

\* a task is resumed with its own local variables
Restore(f) ==
    /\ pc' = f.pc
    /\ ctx' = f.ctx
    /\ vurl' = f.vurl
    /\ vallow' = f.vallow
    /\ varg' = f.varg
    /\ vans' = f.vans
    /\ vres' = f.vres
    /\ ndns' = f.ndns
    /\ npass' = f.npass
    /\ headers_host' = f.headers_host
    /\ current_url' = f.current_url
    /\ redirect_url' = f.redirect_url
    /\ redirect_count' = f.redirect_count
    /\ outcome' = f.outcome
    /\ hop' = f.hop
    /\ checked' = f.checked
    /\ fresh' = f.fresh
    /\ contacted' = f.contacted
    /\ nreq' = f.nreq
    /\ nredir' = f.nredir

\* the event loop suspends the running task and resumes task i
Switch(i) ==
    /\ task \in Tasks /\ i \in Tasks \ {task}
    /\ frames[i].pc \notin {"running", "done"}
    /\ Restore(frames[i])
    /\ frames' = [frames EXCEPT ![task] = Frame, ![i] = Running]
    /\ task' = i
    /\ UNCHANGED otherVars

\* lines 329-331: fetch_feed(url) begins with the validation of its URL
fetch_feed ==
    /\ UNCHANGED taskVars
    /\ UNCHANGED otherVars
    /\ task \in Tasks /\ pc = "idle"
    /\ Enter(feed_urls[task], FALSE)
    /\ ctx' = "feed"
    /\ UNCHANGED vres
    /\ UNCHANGED fetchVars

\* lines 332-334: the feed URL is rejected, fetch_feed returns (None, [])
RejectFeed ==
    /\ UNCHANGED taskVars
    /\ UNCHANGED otherVars
    /\ pc = "validating" /\ ctx = "feed"
    /\ \E ans \in AnswersFor(vurl, vallow) :
          \E r \in {validate_url_safe_for_ssrf(vurl, vallow, ans)} :
              /\ r.kind = "reject"
              /\ vres' = r
              /\ Ran(ans)
    /\ pc' = "done"
    /\ UNCHANGED <<ctx, vurl, vallow, varg>>
    /\ UNCHANGED fetchVars

\* lines 336-363: the feed URL is accepted, the target is pinned and
\* _safe_get_with_redirects is called with it and with fresh headers
AcceptFeed ==
    /\ UNCHANGED taskVars
    /\ UNCHANGED otherVars
    /\ pc = "validating" /\ ctx = "feed"
    /\ \E ans \in AnswersFor(vurl, vallow) :
          \E r \in {validate_url_safe_for_ssrf(vurl, vallow, ans)} :
              /\ r.kind = "accept"
              /\ vres' = r
              /\ Enter(InitialTarget(r.url, r.ips), FALSE)
              /\ headers_host' = InitialHost(r.url, r.ips, None)
              /\ hop' = [idx |-> 1, url |-> InitialTarget(r.url, r.ips),
                         location |-> None]
    /\ ctx' = "initial"
    /\ UNCHANGED <<current_url, redirect_url, redirect_count, outcome,
                   checked, fresh, contacted, nreq, nredir>>

\* lines 364-389: the entries fetch_feed returns from the locals f it ends
\* with; raise_for_status and every other exception give (None, [])
fetch_feed_entries(f) ==
    IF f.pc = "done" /\ f.outcome.kind = "response" /\ f.outcome.status = 200
    THEN <<[feed_url |-> f.vres.url]>>
    ELSE <<>>

InitAll ==
    /\ InitLocals
    /\ task = 1
    /\ frames = [t \in Tasks |-> IF t = 1 THEN Running ELSE IdleFrame]
    /\ InitOther

\* the target fetch_feed passes on was accepted and is validated again
\* without lookup, so lines 97-101 are not reached from fetch_feed
NextAll ==
    \/ \E i \in Tasks : Switch(i)
    \/ fetch_feed
    \/ RejectFeed
    \/ AcceptFeed
    \/ ValidateRecurse /\ InFeedBounds'
    \/ AcceptInitial /\ InFeedBounds'
    \/ client_get /\ InFeedBounds'
    \/ RejectRedirect /\ InFeedBounds'
    \/ AcceptRedirect /\ InFeedBounds'

SpecAll == InitAll /\ [][NextAll]_vars

(***************************************************************************)
(* RSSConnector.validate_feed and fetch_feed, called once: both validate   *)
(* the URL unless the caller supplies validated_ips, pin the target and    *)
(* call _safe_get_with_redirects; they differ in what they return.         *)
(***************************************************************************)
\* URLs given to validate_feed
FeedCallUrls ==
    { <<"http://", "192", ".", "168", ".", "1", ".", "1", "/", "feed">>,
      <<"https://", "example", ".", "com", "/", "feed">>,
      <<"https://", "example", ".", "com", "/", "a", "%", "2f", "b">> }

\* the URL given together with validated_ips
PinnedCallUrl == <<"https://", "example", ".", "com", "/", "feed">>

\* validated_ips a caller may supply
SuppliedIps ==
    { <<Pub1>>, <<Priv1>>, <<Loopback>>, <<Priv1, Pub1>>,
      <<<<"fe80", "::", "1">>>> }

\* lines 240-243 (328-331): without validated_ips the URL is validated
validate_feed ==
    /\ UNCHANGED taskVars
    /\ UNCHANGED otherVars
    /\ task = 0 /\ pc = "idle"
    /\ \E url \in FeedCallUrls : Enter(url, FALSE)
    /\ ctx' = "feed"
    /\ UNCHANGED vres
    /\ UNCHANGED fetchVars

\* lines 241, 248-275 (329, 336-363): with validated_ips the validation is
\* skipped, the target is pinned to validated_ips[0] and
\* _safe_get_with_redirects is called with it
validate_feed_pinned ==
    /\ UNCHANGED taskVars
    /\ UNCHANGED otherVars
    /\ task = 0 /\ pc = "idle"
    /\ \E url \in {PinnedCallUrl}, ips \in SuppliedIps :
          /\ Enter(InitialTarget(url, ips), FALSE)
          /\ headers_host' = InitialHost(url, ips, None)
          /\ hop' = [idx |-> 1, url |-> InitialTarget(url, ips),
                     location |-> None]
    /\ ctx' = "initial"
    /\ UNCHANGED <<vres, current_url, redirect_url, redirect_count, outcome,
                   checked, fresh, contacted, nreq, nredir>>

\* what feedparser may make of the body of a response
Feeds == [bozo : BOOLEAN, items : 0..2]

\* response.raise_for_status(): an HTTPStatusError for 4xx and 5xx, and in
\* the strict releases of httpx for every status outside 2xx
RaisesForStatus(status, strict) ==
    status >= 400 \/ (strict /\ status \notin 200..299)

\* validate_feed without the test of lines 302-304
validate_feed_result_anyitems(feed, strict) ==
    IF pc # "done" THEN [valid |-> FALSE, error |-> None, item_count |-> 0]
    ELSE IF ctx = "feed"
    THEN [valid |-> FALSE, error |-> vres.detail, item_count |-> 0]
    ELSE IF outcome.kind = "httpx.RequestError"
    THEN [valid |-> FALSE, error |-> <<"Request failed: ">>, item_count |-> 0]
    ELSE IF outcome.kind # "response"
    THEN [valid |-> FALSE, error |-> <<"Unexpected error: ">> \o outcome.detail,
          item_count |-> 0]
    ELSE IF RaisesForStatus(outcome.status, strict)
    THEN [valid |-> FALSE, error |-> <<"HTTP ", "status_code">>,
          item_count |-> 0]
    ELSE IF feed.bozo /\ feed.items = 0
    THEN [valid |-> FALSE, error |-> <<"bozo_exception">>, item_count |-> 0]
    ELSE [valid |-> TRUE, error |-> None, item_count |-> feed.items]

\* lines 231-313: the dict validate_feed returns when the call has ended,
\* given what feedparser makes of the body; title and last_updated left out
validate_feed_result(feed, strict) ==
    IF pc # "done" THEN [valid |-> FALSE, error |-> None, item_count |-> 0]
    ELSE IF ctx = "feed"
    THEN [valid |-> FALSE, error |-> vres.detail, item_count |-> 0]
    ELSE IF outcome.kind = "httpx.RequestError"
    THEN [valid |-> FALSE, error |-> <<"Request failed: ">>, item_count |-> 0]
    ELSE IF outcome.kind # "response"
    THEN [valid |-> FALSE, error |-> <<"Unexpected error: ">> \o outcome.detail,
          item_count |-> 0]
    ELSE IF RaisesForStatus(outcome.status, strict)
    THEN [valid |-> FALSE, error |-> <<"HTTP ", "status_code">>,
          item_count |-> 0]
    ELSE IF feed.bozo /\ feed.items = 0
    THEN [valid |-> FALSE, error |-> <<"bozo_exception">>, item_count |-> 0]
    ELSE IF feed.items = 0
    THEN [valid |-> FALSE, error |-> <<"Feed has no items">>, item_count |-> 0]
    ELSE [valid |-> TRUE, error |-> None, item_count |-> feed.items]

\* redirects followed in the single call
MaxCallRedirects == 2

InCallBounds ==
    /\ nredir <= MaxCallRedirects
    /\ vans = None \/ vans = GaiError \/ vans \in FeedAnswers
    /\ hop.location \in FeedLocations \cup {None}

NextFeed ==
    \/ validate_feed
    \/ validate_feed_pinned
    \/ RejectFeed
    \/ AcceptFeed
    \/ ValidateRecurse /\ InCallBounds'
    \/ RejectInitial /\ InCallBounds'
    \/ AcceptInitial /\ InCallBounds'
    \/ client_get /\ InCallBounds'
    \/ RejectRedirect /\ InCallBounds'
    \/ AcceptRedirect /\ InCallBounds'

SpecFeed == Init /\ [][NextFeed]_vars

(***************************************************************************)
(* JellyfinConnector and validate_connector_url.                           *)
(***************************************************************************)
\* jellyfin_connector.py line 153: the assert in get_server_info is indented
\* deeper than the statement before it; Python refuses to compile the file
\* (IndentationError: unexpected indent), so nothing of the module is defined
jellyfin_connector_compiles == FALSE

IndentationError == [kind |-> "IndentationError", status |-> 0, detail |-> <<>>]

\* the connector object a successful construction gives
Constructed == [kind |-> "JellyfinConnector", status |-> 0, detail |-> <<>>]

\* the request _build_url hands to client.get
Request(url, host) == [kind |-> "request", url |-> url, host |-> host]

\* ipaddress: the networks of is_private, is_loopback and is_link_local that
\* hold an address of the model
NonPublicNetworks ==
    << Net(4, <<0, 0, 0, 0>>, 8),
       Net(4, <<10, 0, 0, 0>>, 8),
       Net(4, <<127, 0, 0, 0>>, 8),
       Net(4, <<169, 254, 0, 0>>, 16),
       Net(4, <<172, 16, 0, 0>>, 12),
       Net(4, <<192, 168, 0, 0>>, 16),
       Net(4, <<240, 0, 0, 0>>, 4),
       Net(6, <<0, 0, 0, 0, 0, 0, 0, 1>>, 128),
       Net(6, <<8193, 3512, 0, 0, 0, 0, 0, 0>>, 32),
       Net(6, <<64512, 0, 0, 0, 0, 0, 0, 0>>, 7),
       Net(6, <<65152, 0, 0, 0, 0, 0, 0, 0>>, 10) >>

\* ip_obj.is_private or ip_obj.is_loopback or ip_obj.is_link_local
IsNonPublic(ip) ==
    \E k \in 1..Len(NonPublicNetworks) : InNetwork(ip, NonPublicNetworks[k])

\* server_url.rstrip("/")
RStrip(s) ==
    IF s = <<>> \/ \A i \in 1..Len(s) : s[i] = "/" THEN <<>>
    ELSE SubSeq(s, 1, LastIn(s, {s[i] : i \in {j \in 1..Len(s) : s[j] # "/"}}))

\* JellyfinConnector(server_url, api_key, user_id, validated_ips)
JellyfinConnector(server_url, validated_ips) ==
    IF ~jellyfin_connector_compiles THEN IndentationError
    ELSE IF ~Truthy(validated_ips) THEN ValueError
    ELSE Constructed

\* _build_url(endpoint) of a connector with this server_url and validated_ips
build_url(server_url, validated_ips, endpoint) ==
    IF ~Truthy(validated_ips) THEN ValueError
    ELSE IF urlparse(server_url).scheme \notin {"http", "https"} THEN ValueError
    ELSE IF ip_address(validated_ips[1]) = NotAnIP THEN ValueError
    ELSE IF IsNonPublic(ip_address(validated_ips[1])) THEN ValueError
    ELSE Request(<<urlparse(server_url).stok>>
                    \o format_ip_for_url(validated_ips[1])
                    \o (IF urlparse(server_url).port # <<>>
                        THEN <<":">> \o urlparse(server_url).port ELSE <<>>)
                    \o endpoint,
                 urlparse(server_url).hostname)

\* server URLs given to the Jellyfin routes
ServerUrls ==
    { <<"example", ".", "com", ":", "8096">>,
      <<"https://", "evil", ".", "com", "/">>,
      <<"http://", "93", ".", "184", ".", "216", ".", "34", ":", "8096">>,
      <<"http://", "192", ".", "168", ".", "1", ".", "1">>,
      <<" ", "http://", "example", ".", "com", "/", "a", "%", "2f", "b">> }

\* routes, lines 58-60 and 138-140: the URL is stripped and given a scheme
NormalizeServerUrl(server_url) ==
    IF StartsWithHttp(Strip(server_url)) THEN Strip(server_url)
    ELSE <<"http://">> \o Strip(server_url)

\* validate_connector_url: a rejection is raised again with the connector type
ConnectorResult(r, connector_type) ==
    IF r.kind = "reject"
    THEN Reject(<<"Invalid ", connector_type, " URL: ">> \o r.detail)
    ELSE r

\* await validate_connector_url(server_url, connector_type="Jellyfin")
validate_connector_url ==
    /\ UNCHANGED taskVars
    /\ UNCHANGED otherVars
    /\ task = 0 /\ pc = "idle"
    /\ \E server_url \in ServerUrls : Enter(NormalizeServerUrl(server_url), FALSE)
    /\ ctx' = "connector"
    /\ UNCHANGED vres
    /\ UNCHANGED fetchVars

\* validate_connector_url returns (url, validated_ips) or raises
ConnectorReturn ==
    /\ UNCHANGED taskVars
    /\ UNCHANGED otherVars
    /\ pc = "validating" /\ ctx = "connector"
    /\ \E ans \in AnswersFor(vurl, vallow) :
          \E r \in {validate_url_safe_for_ssrf(vurl, vallow, ans)} :
              /\ r.kind # "recurse"
              /\ vres' = ConnectorResult(r, "Jellyfin")
              /\ Ran(ans)
    /\ pc' = "validated"
    /\ UNCHANGED <<ctx, vurl, vallow, varg>>
    /\ UNCHANGED fetchVars

\* the validated_ips argument a caller passes
GivenIps(given, ips) ==
    IF given = "validated" THEN ips ELSE IF given = "None" THEN None ELSE <<>>

\* a caller that holds a validated URL constructs the connector, with the
\* validated_ips of the validation, with None or with an empty list
NewJellyfinConnector ==
    /\ UNCHANGED taskVars
    /\ UNCHANGED otherVars
    /\ pc = "validated" /\ vres.kind = "accept"
    /\ \E given \in {"validated", "None", "empty"} :
          \E c \in {JellyfinConnector(vres.url, GivenIps(given, vres.ips))} :
              /\ outcome' = c
              /\ checked' = [url |-> RStrip(vres.url),
                             ips |-> GivenIps(given, vres.ips)]
              /\ pc' = IF c = Constructed THEN "connected" ELSE "done"
    /\ UNCHANGED <<ctx, vurl, vallow, varg, vans, vres, ndns, npass>>
    /\ UNCHANGED <<headers_host, current_url, redirect_url, redirect_count,
                   hop, fresh, contacted, nreq, nredir>>

\* jellyfin_add_connector_route.py line 11: loading the routes imports the
\* connector module
import_jellyfin_routes ==
    /\ UNCHANGED taskVars
    /\ UNCHANGED otherVars
    /\ task = 0 /\ pc = "idle"
    /\ ~jellyfin_connector_compiles
    /\ outcome' = IndentationError
    /\ ctx' = "routes"
    /\ pc' = "done"
    /\ UNCHANGED <<vurl, vallow, varg, vans, vres, ndns, npass>>
    /\ UNCHANGED <<headers_host, current_url, redirect_url, redirect_count,
                   hop, checked, fresh, contacted, nreq, nredir>>

NextJellyfin ==
    \/ validate_connector_url
    \/ ValidateRecurse
    \/ ConnectorReturn
    \/ NewJellyfinConnector
    \/ import_jellyfin_routes

SpecJellyfin == Init /\ [][NextJellyfin]_vars

(***************************************************************************)
(* SlidingSessionMiddleware: the clock of the model advances in steps of   *)
(* six hours; a user logs in once and then sends requests.                 *)
(***************************************************************************)
\* seconds in one step of the clock
ClockStep == 21600

\* line 135: total_lifetime = 86400, in steps
total_lifetime == 86400 \div ClockStep

\* line 28 and line 138: total_lifetime * REFRESH_THRESHOLD with the default 0.5
RefreshBelow == total_lifetime \div 2

\* line 178: max_age=86400, in steps
max_age == 86400 \div ClockStep

\* the clock stops here
MaxTime == 10

\* status codes a route answers an authenticated request with
RouteStatuses == {200, 404}

\* the authentication accepts the JWT until the time of its exp claim
TokenValid(s) == s.exp > 0 /\ s.now < s.exp

\* the browser sends the cookie until its max-age has passed
CookieSent(s) == s.exp > 0 /\ s.now < s.cookie_expires

\* _should_refresh_cookie(token): jwt.decode validates exp and raises
\* ExpiredSignatureError, a JWTError, for an expired token (lines 153-156)
should_refresh_cookie(exp, current_time) ==
    IF exp = 0 THEN TRUE
    ELSE IF exp < current_time THEN FALSE
    ELSE exp - current_time < RefreshBelow

\* the status of the response of call_next(request)
ResponseStatus(s, protected, answer) ==
    IF protected /\ ~(CookieSent(s) /\ TokenValid(s)) THEN 401 ELSE answer

\* dispatch, lines 169-187: the cookie is set again with the same value, the
\* JWT the request carried, and max_age 86400
Refreshed(s, status) ==
    IF CookieSent(s) /\ status < 400 /\ should_refresh_cookie(s.exp, s.now)
    THEN [s EXCEPT !.cookie_expires = s.now + max_age]
    ELSE s

\* the user logs in: a JWT that expires after 24 hours is issued and set as
\* the surfsense_auth cookie
Login ==
    /\ UNCHANGED taskVars
    /\ UNCHANGED <<pc, ctx, vurl, vallow, varg, vans, vres, ndns, npass>>
    /\ UNCHANGED fetchVars
    /\ UNCHANGED transcript
    /\ session.exp = 0
    /\ session' = [session EXCEPT !.exp = session.now + total_lifetime,
                                  !.cookie_expires = session.now + max_age,
                                  !.last_request = session.now,
                                  !.active = TRUE,
                                  !.status_code = 200]

\* six hours pass
Tick ==
    /\ UNCHANGED taskVars
    /\ UNCHANGED <<pc, ctx, vurl, vallow, varg, vans, vres, ndns, npass>>
    /\ UNCHANGED fetchVars
    /\ UNCHANGED transcript
    /\ session.now < MaxTime
    /\ session' = [session EXCEPT !.now = session.now + 1]

\* SlidingSessionMiddleware.dispatch for one request of the user; active
\* tells that every request before was successful and that every gap, this
\* one included, was shorter than total_lifetime
dispatch ==
    /\ UNCHANGED taskVars
    /\ UNCHANGED <<pc, ctx, vurl, vallow, varg, vans, vres, ndns, npass>>
    /\ UNCHANGED fetchVars
    /\ UNCHANGED transcript
    /\ session.exp > 0
    /\ \E protected \in BOOLEAN, answer \in RouteStatuses :
          \E status \in {ResponseStatus(session, protected, answer)} :
              session' =
                 [Refreshed(session, status) EXCEPT
                    !.status_code = status,
                    !.last_request = session.now,
                    !.active = /\ session.active
                               /\ session.status_code < 400
                               /\ session.now - session.last_request
                                     < total_lifetime]

NextSession == Login \/ Tick \/ dispatch

SpecSession == Init /\ [][NextSession]_vars

(***************************************************************************)
(* get_youtube_transcript: the YouTube API tier, then the Whisper tier.    *)
(***************************************************************************)
VideoIds == {"dQw4w9WgXcQ", "abc123", "xyz789"}

\* what get_youtube_transcript_with_proxy raises when it fails
ApiErrors ==
    {"TranscriptsDisabled", "NoTranscriptFound", "VideoUnavailable",
     "CouldNotRetrieveTranscript", "ConnectionError", "Exception"}

\* what get_youtube_transcript_with_whisper raises when it fails
WhisperErrors == {"RuntimeError", "Exception"}

\* the segment lists a tier returns
SegmentLists == {<<>>, <<[text |-> "Test", start |-> 0, duration |-> 1]>>}

\* return segments, method
ReturnTranscript(segments, method) ==
    [kind |-> "return", segments |-> segments, method |-> method]

\* raise RuntimeError(...)
RuntimeError == [kind |-> "RuntimeError", segments |-> <<>>, method |-> ""]

\* lines 301-303: the call begins, WHISPER_ENABLED is read from the environment
get_youtube_transcript ==
    /\ UNCHANGED taskVars
    /\ UNCHANGED <<pc, ctx, vurl, vallow, varg, vans, vres, ndns, npass>>
    /\ UNCHANGED fetchVars
    /\ UNCHANGED session
    /\ transcript.pc = "idle"
    /\ \E video_id \in VideoIds, whisper_enabled \in BOOLEAN :
          transcript' = [NoTranscript EXCEPT !.pc = "api",
                                             !.video_id = video_id,
                                             !.whisper_enabled = whisper_enabled]

\* the tier called is written down
Called(t, tier) == [t EXCEPT !.calls = Append(t.calls, tier)]

\* the fallback taken whether or not Whisper is enabled
AfterApiError_always(t, error) ==
    [t EXCEPT !.api_error = error, !.pc = "whisper"]

\* lines 310-328: both handlers raise RuntimeError when Whisper is disabled
\* and fall through to the Whisper tier otherwise
AfterApiError(t, error) ==
    IF ~t.whisper_enabled
    THEN [t EXCEPT !.api_error = error, !.pc = "done", !.result = RuntimeError]
    ELSE [t EXCEPT !.api_error = error, !.pc = "whisper"]

\* lines 305-308: get_youtube_transcript_with_proxy returns or raises
get_youtube_transcript_with_proxy ==
    /\ UNCHANGED taskVars
    /\ UNCHANGED <<pc, ctx, vurl, vallow, varg, vans, vres, ndns, npass>>
    /\ UNCHANGED fetchVars
    /\ UNCHANGED session
    /\ transcript.pc = "api"
    /\ \/ \E segments \in SegmentLists :
             transcript' =
                [Called(transcript, "youtube_api") EXCEPT
                   !.pc = "done",
                   !.result = ReturnTranscript(segments, "youtube_api")]
       \/ \E error \in ApiErrors :
             transcript' = AfterApiError(Called(transcript, "youtube_api"), error)

\* lines 330-341: get_youtube_transcript_with_whisper returns or raises
get_youtube_transcript_with_whisper ==
    /\ UNCHANGED taskVars
    /\ UNCHANGED <<pc, ctx, vurl, vallow, varg, vans, vres, ndns, npass>>
    /\ UNCHANGED fetchVars
    /\ UNCHANGED session
    /\ transcript.pc = "whisper"
    /\ \/ \E segments \in SegmentLists :
             transcript' =
                [Called(transcript, "whisper") EXCEPT
                   !.pc = "done",
                   !.result = ReturnTranscript(segments, "whisper")]
       \/ \E error \in WhisperErrors :
             transcript' =
                [Called(transcript, "whisper") EXCEPT
                   !.pc = "done",
                   !.whisper_error = error,
                   !.result = RuntimeError]

NextTranscript ==
    \/ get_youtube_transcript
    \/ get_youtube_transcript_with_proxy
    \/ get_youtube_transcript_with_whisper

SpecTranscript == Init /\ [][NextTranscript]_vars

(***************************************************************************)
(* Properties.                                                             *)
(***************************************************************************)
\* the step issues a GET request
Requests == nreq' = nreq + 1

\* the URL given to the last activation of the validator when the call on
\* url is not rejected: url decoded until the decoding changes nothing
RECURSIVE LastPass(_)
LastPass(url) ==
    IF unquote(Strip(url)) # Strip(url) THEN LastPass(unquote(Strip(url))) ELSE url

\* the URLs a request for a validated hop may be sent to: the URL as given
\* or as returned by the validator, or one of them pinned to the first address
RequestForms(url, chk) ==
    {url, chk.url}
    \cup (IF Truthy(chk.ips)
          THEN {PinnedUrl(urlparse(url), chk.ips[1]),
                PinnedUrl(urlparse(chk.url), chk.ips[1])}
          ELSE {})

\* C1: every GET request of _safe_get_with_redirects, the first one and the
\* one of each redirect target, is issued only after the validator, called
\* with allow_private=False on the URL of that hop, accepted it since the
\* previous request; the request goes to that URL or to its pinned form.
C1_ValidatedBeforeEveryRequest ==
    [][Requests =>
          /\ fresh
          /\ vallow = FALSE
          /\ varg = hop.url
          /\ checked.url # None
          /\ vurl = LastPass(hop.url)
          /\ validate_url_safe_for_ssrf(vurl, FALSE, vans)
                = Accept(checked.url, checked.ips)
          /\ current_url \in RequestForms(hop.url, checked)]_vars

\* a redirect target was validated and then requested
C1_Witness ==
    /\ pc = "done" /\ outcome.kind = "response"
    /\ nreq = 3 /\ hop.idx = 3
    /\ hop.url = <<"https://", "evil", ".", "com", "/", "x">>
    /\ checked.ips = <<Pub2, Pub1>>

\* the host of a URL is a name, not an address
IsDomainUrl(url) == ~IsIPLiteral(HostnameOf(Strip(url)))

\* C2: whenever the hostname of a hop is a domain name and its validation
\* returned validated_ips, the request of the hop goes to validated_ips[0]
\* with the scheme, port, path and query of the hop's URL, carries the
\* hostname in the Host header, and the address contacted is
\* validated_ips[0] whatever the resolver answers when the request is made.
C2_PinnedToFirstValidatedIp ==
    [][Requests /\ IsDomainUrl(hop.url) /\ Truthy(checked.ips) =>
          /\ current_url = PinnedUrl(urlparse(Strip(hop.url)), checked.ips[1])
          /\ headers_host = HostnameOf(Strip(hop.url))
          /\ contacted' = checked.ips[1]]_vars

\* the ranges the claim C3 names, written on the octets and hextets
InNamedRange(ip) ==
    \/ /\ ip.ver = 4
       /\ \/ ip.addr[1] \in {0, 10, 127}
          \/ ip.addr[1] = 169 /\ ip.addr[2] = 254
          \/ ip.addr[1] = 172 /\ ip.addr[2] \in 16..31
          \/ ip.addr[1] = 192 /\ ip.addr[2] = 168
          \/ ip.addr[1] \in 224..255
    \/ /\ ip.ver = 6
       /\ \/ ip.addr = <<0, 0, 0, 0, 0, 0, 0, 1>>
          \/ ip.addr[1] \in 65152..65215
          \/ ip.addr[1] \in 64512..65023

\* the hosts the claim C3 names
NamedForbiddenHost(h) ==
    \/ h \in { <<"localhost">>,
               <<"127", ".", "0", ".", "0", ".", "1">>,
               <<"::", "1">>,
               <<"169", ".", "254", ".", "169", ".", "254">>,
               <<"metadata", ".", "google", ".", "internal">> }
    \/ IsIPLiteral(h) /\ InNamedRange(ip_address(h))

\* a direct call of the validator has returned or raised
Returned_direct == pc = "done" /\ ctx = "direct"

\* C3: with allow_private=False the validator rejects every http/https URL
\* whose host is localhost, 127.0.0.1, [::1], 169.254.169.254,
\* metadata.google.internal or a literal address inside 0/8, 10/8, 127/8,
\* 169.254/16, 172.16/12, 192.168/16, 224/4, 240/4, ::1/128, fe80::/10,
\* fc00::/7.
C3_ForbiddenHostsRejected ==
    (/\ Returned_direct /\ ~vallow
     /\ StartsWithHttp(Strip(varg))
     /\ NamedForbiddenHost(HostnameOf(Strip(varg))))
    => vres.kind = "reject" /\ vres.status = 400

\* the last address of 172.16/12 was given and rejected
C3_Witness ==
    /\ Returned_direct /\ ~vallow
    /\ varg = <<"http://", "172", ".", "31", ".", "255", ".", "255">>
    /\ vres.kind = "reject"

\* an address of the answer is in a blocked range of the claim
HasBlocked(ans) ==
    /\ ans # None /\ ans # GaiError /\ ans # ResolverError
    /\ \E i \in 1..Len(ans) : InNamedRange(ip_address(ans[i]))

\* C4: when the resolver answers several addresses and at least one of them
\* is in a blocked range, the validator (allow_private=False) rejects the
\* URL, wherever the blocked address stands in the answer and however
\* many public addresses accompany it; no addresses are returned.
C4_AnyBlockedAnswerRejects ==
    (Returned_direct /\ ~vallow /\ HasBlocked(vans))
    => vres.kind = "reject" /\ vres.ips = None

\* a public address first, a blocked one after it, and the URL was rejected
C4_Witness ==
    /\ Returned_direct /\ ~vallow
    /\ vans = <<Pub1, Priv1>>
    /\ vres.kind = "reject"

\* C5: whenever the validator (allow_private=False) accepts a URL whose
\* hostname is a domain name, the validated_ips it returns are a non-empty
\* list without duplicates, in the order of first occurrence in the answer
\* of the resolver, of addresses that are not blocked.
C5_DomainAcceptedWithIps ==
    (/\ Returned_direct /\ ~vallow /\ vres.kind = "accept"
     /\ IsDomainUrl(varg))
    => /\ vres.ips # None
       /\ Len(vres.ips) > 0
       /\ \A i, j \in 1..Len(vres.ips) : i # j => vres.ips[i] # vres.ips[j]
       /\ \A i \in 1..Len(vres.ips) : ~is_ip_blocked(vres.ips[i])
       /\ vres.ips = Dedup(vans)

\* the validation of a redirect target raised: no request was made for the
\* hop in progress and nothing was accepted for it
TargetRejected == pc = "done" /\ ctx = "redirect" /\ checked = NoCheck

\* C6: when the target of the k-th redirect response is rejected by the
\* validation, the fetch ends with that rejection after exactly k requests:
\* none was issued to the rejected target and no response is returned.
C6_RejectedTargetNeverRequested ==
    TargetRejected =>
       /\ outcome.kind = "HTTPException" /\ outcome.status = 400
       /\ nredir = hop.idx - 1
       /\ nreq = nredir
       /\ ~fresh
       /\ ~ENABLED client_get

\* the second redirect pointed to 192.168.1.1 and was refused after 2 requests
C6_Witness ==
    /\ TargetRejected
    /\ hop.url = <<"http://", "192", ".", "168", ".", "1", ".", "1", "/", "internal">>
    /\ nredir = 2 /\ nreq = 2
    /\ outcome = HTTPException(400, <<"Access to private IP addresses is not allowed">>)

\* C7: a chain of 6 or more redirect responses, or a redirect that loops
\* for ever, ends with the too-many-redirects error (status 400, message
\* naming the maximum 5), and exactly 5 GET requests have been issued then;
\* a sixth request is never issued.
C7_TooManyAfterFiveRequests ==
    /\ nreq <= 5
    /\ redirect_count >= 5 => pc = "done" /\ outcome = TooManyRedirects
    /\ outcome = TooManyRedirects =>
          /\ outcome.status = 400
          /\ outcome.detail = <<"Too many redirects (max ", "5", ")">>
          /\ nreq = 5 /\ nredir = 5

\* a redirect that points to itself was followed until the error
C7_Witness ==
    /\ outcome = TooManyRedirects
    /\ hop.location = <<"https://", "example", ".", "com", "/", "feed">>
    /\ hop.url = hop.location
    /\ nreq = 5

\* C8: for every n with 0 <= n <= 5, a chain of n redirects to safe targets
\* followed by a response that is not a redirect is fetched successfully:
\* the too-many-redirects error is raised only for chains of more than 5
\* redirects, and a returned response followed as many redirects as were
\* received, at most 5.
C8_FiveRedirectsSucceed ==
    /\ outcome = TooManyRedirects => nredir > 5
    /\ outcome.kind = "response" => redirect_count = nredir /\ nredir <= 5

HostSent == IF headers_host # None THEN headers_host ELSE HostnameOf(current_url)

\* C10: at every hop reached by a redirect to an absolute URL, the Host
\* header of the request is the hostname of that hop's URL, also when the
\* target is a literal address; the Host of the previous hop is not kept.
C10_HostOfCurrentHop ==
    [][(Requests /\ hop.idx > 1 /\ HasScheme(hop.location))
          => HostSent = HostnameOf(hop.url)]_vars

\* what a call of the validator ends with when the resolver gives the answer
\* ans at each lookup: the activations run one after the other
RECURSIVE Outcome(_, _, _)
Outcome(url, allow_private, ans) ==
    LET r == validate_url_safe_for_ssrf(url, allow_private, ans)
    IN  IF r.kind = "recurse" THEN Outcome(r.url, allow_private, ans) ELSE r

\* a direct call of the validator is about to run its first activation
Entered_direct == pc = "validating" /\ ctx = "direct" /\ npass = 0

\* C11: for every URL u whose percent-decoding d differs from u, and for both
\* values of allow_private: if the validator rejects d it rejects u too, the
\* resolver answering the same in both calls.
C11_DecodedRejectedImpliesRejected ==
    (Entered_direct /\ unquote(Strip(varg)) # Strip(varg))
    => \A ans \in DnsAnswers :
          Outcome(unquote(Strip(varg)), vallow, ans).kind = "reject"
          => Outcome(varg, vallow, ans).kind = "reject"

\* http://10.0.0.1%2f@example.com/ names the host example.com, its decoded
\* form the host 10.0.0.1: the second activation rejected it
C11_Witness ==
    /\ Returned_direct /\ ~vallow
    /\ varg = <<"http://", "10", ".", "0", ".", "0", ".", "1", "%", "2f", "@",
                "example", ".", "com", "/">>
    /\ npass = 2 /\ vans = <<Pub1>>
    /\ vres = Reject(<<"Access to private IP addresses is not allowed">>)

\* the blocklist of C12, the bracketed entries unwrapped
UnwrappedBlocklist ==
    { <<"localhost">>,
      <<"0", ".", "0", ".", "0", ".", "0">>,
      <<"127", ".", "0", ".", "0", ".", "1">>,
      <<"::">>,
      <<"::", "1">>,
      <<"metadata", ".", "google", ".", "internal">>,
      <<"169", ".", "254", ".", "169", ".", "254">> }

\* C12: for both values of allow_private the validator rejects every URL
\* whose host, lower-cased and without the brackets of an IPv6 literal, is in
\* the blocklist {localhost, 0.0.0.0, 127.0.0.1, ::, ::1,
\* metadata.google.internal, 169.254.169.254}, contains "localhost" or
\* starts with "127.".
C12_BlocklistForBothModes ==
    (/\ Returned_direct
     /\ \/ HostnameOf(Strip(varg)) \in UnwrappedBlocklist
        \/ IsLocalhostVariation(HostnameOf(Strip(varg))))
    => vres.kind = "reject"

\* the URL is empty, does not begin with http:// or https://, or has no
\* hostname
Malformed(url_in) ==
    \/ url_in = <<>>
    \/ ~StartsWithHttp(Strip(url_in))
    \/ HostnameOf(Strip(url_in)) = None

\* C13: with allow_private=True the validator asks the resolver nothing and
\* returns no validated_ips, it accepts the literal private address 10.0.0.1,
\* and it rejects an empty URL, a scheme other than http/https and a missing
\* hostname with the same error as with allow_private=False; whatever it
\* rejects is rejected with allow_private=False too.
C13_AllowPrivateSkipsRangesAndDns ==
    (Returned_direct /\ vallow)
    => /\ ndns = 0 /\ vans = None
       /\ vres.ips = None
       /\ varg = <<"http://", "10", ".", "0", ".", "0", ".", "1", "/", "feed">>
          => vres = Accept(varg, None)
       /\ Malformed(varg)
          => /\ vres.kind = "reject"
             /\ \A ans \in DnsAnswers : Outcome(varg, FALSE, ans) = vres
       /\ vres.kind = "reject"
          => \A ans \in DnsAnswers : Outcome(varg, FALSE, ans).kind = "reject"

\* a URL naming a domain was accepted with allow_private=True, unresolved
C13_Witness ==
    /\ Returned_direct /\ vallow
    /\ varg = <<"https://", "evil", ".", "com", "/", "x">>
    /\ vres = Accept(varg, None)
    /\ ndns = 0

\* the URL is well formed and its host is an address outside the blocked ranges
PublicLiteralHost(url_in) ==
    /\ url_in # <<>> /\ StartsWithHttp(Strip(url_in)) /\ ~UrlparseRaises(Strip(url_in))
    /\ IsIPLiteral(HostnameOf(Strip(url_in)))
    /\ ~is_ip_blocked(HostnameOf(Strip(url_in)))

\* C14: when the hostname of the URL is a literal address (IPv4, or IPv6 in
\* brackets) outside the blocked ranges, the validator accepts the URL,
\* returns validated_ips None and asks the resolver nothing.
C14_PublicLiteralAcceptedWithoutDns ==
    (Returned_direct /\ PublicLiteralHost(varg))
    => /\ vres.kind = "accept"
       /\ vres.ips = None
       /\ ndns = 0

\* C15: a response is treated as a redirect if and only if its status is
\* 301, 302, 303, 307 or 308: a request answered with one of these never
\* ends the fetch with that response, and a request answered with any other
\* status (304, 404 and 500 as well as 200) ends the fetch at once with
\* exactly that response; a returned response never carries a redirect
\* status, and when the first response is returned exactly one GET has been
\* issued.
C15_RedirectStatusesOnly ==
    [][Requests =>
          /\ \A status \in Statuses :
                Response(status) =>
                   IF status \in {301, 302, 303, 307, 308}
                   THEN /\ outcome'.kind # "response"
                        /\ nredir' = nredir + 1
                   ELSE /\ outcome' = Returned(status)
                        /\ pc' = "done"
                        /\ nredir' = nredir
          /\ outcome'.kind = "response"
             => /\ outcome'.status \notin {301, 302, 303, 307, 308}
                /\ nreq' = nredir' + 1
                /\ nredir' = 0 => nreq' = 1]_vars

\* the first response had status 304 and was returned after one request
C15_Witness ==
    /\ pc = "done" /\ outcome = Returned(304)
    /\ nreq = 1 /\ nredir = 0 /\ hop.idx = 1

\* a request is answered with a redirect status and no Location header
NoLocation ==
    /\ Requests
    /\ \E status \in {301, 302, 303, 307, 308} : Response(status)
    /\ \A location \in Locations : ~FollowRedirect(location)

\* C16: a response with a redirect status and no Location header ends the
\* fetch with the missing-Location error (HTTPException 500, "Server returned
\* redirect without Location header"); no other outcome has this status or
\* this message, so it differs from a blocked target and from too many
\* redirects; the step makes no lookup and validates nothing, and nothing
\* follows it: no further request, no further validation.
C16_MissingLocationEnds ==
    [][/\ NoLocation =>
            /\ outcome' = HTTPException(500,
                   <<"Server returned redirect without Location header">>)
            /\ outcome' # TooManyRedirects
            /\ pc' = "done"
            /\ ndns' = ndns /\ npass' = npass /\ checked' = checked
            /\ vurl' = vurl
       /\ ~(outcome.kind = "HTTPException" /\ outcome.status = 500)
       /\ (outcome'.kind = "HTTPException" /\ outcome'.status # 500)
            => /\ outcome'.status = 400
               /\ outcome'.detail #
                     <<"Server returned redirect without Location header">>
               /\ ~NoLocation
       /\ (outcome'.kind = "HTTPException" /\ outcome'.status = 500)
            => NoLocation]_vars

\* the second redirect response had no Location: two requests, nothing else
C16_Witness ==
    /\ pc = "done"
    /\ outcome = HTTPException(500,
           <<"Server returned redirect without Location header">>)
    /\ nreq = 2 /\ nredir = 2 /\ hop.idx = 2

\* what the caller has of a result beside the message text: the type of the
\* exception and its status_code
ErrorKind(r) == <<r.kind, r.status>>

\* the rejections of lines 145-177: the URL is malformed
InvalidUrl(r) ==
    /\ r.kind = "reject"
    /\ Head(r.detail) \in { "Invalid URL provided",
                            "URL must start with http:// or https://",
                            "Invalid URL format: ",
                            "Only http and https schemes are allowed",
                            "URL must contain a valid hostname" }

\* the rejections of lines 181-214 and 93-97: the target is blocked
BlockedTarget(r) ==
    /\ r.kind = "reject"
    /\ Head(r.detail) \in { "Access to ",
                            "Access to localhost is not allowed",
                            "Access to private IP addresses is not allowed",
                            "Hostname " }

\* C17: the validator reports a malformed URL and a blocked target as two
\* distinct kinds of error: the type and status of the error raised for a
\* blocked target differ from those raised for any malformed URL, so that a
\* caller tells them apart without reading the message.
C17_DistinctErrorKinds ==
    (Returned_direct /\ BlockedTarget(vres))
    => \A url \in ValidateUrls :
          InvalidUrl(Outcome(url, vallow, GaiError))
          => ErrorKind(Outcome(url, vallow, GaiError)) # ErrorKind(vres)

\* the text occurs in the message
Mentions(detail, text) ==
    /\ text # <<>>
    /\ \E i \in 1..(Len(detail) - Len(text) + 1) :
          SubSeq(detail, i, i + Len(text) - 1) = text

\* lines 241-246 of validate_feed: the 'error' field of the result when the
\* validator raises is the detail of its HTTPException
validate_feed_error(r) == IF r.kind = "reject" THEN r.detail ELSE None

\* C18: the message given to the caller when a URL is rejected as a blocked
\* target (the detail of the HTTPException, which is the 'error' field of
\* validate_feed) contains neither the hostname of the URL nor a blocked
\* address the hostname resolved to, and it is the same whichever blocked
\* address the resolver gave.
C18_MessageHidesTarget ==
    (Returned_direct /\ ~vallow /\ BlockedTarget(vres))
    => /\ ~Mentions(validate_feed_error(vres), HostnameOf(Strip(vurl)))
       /\ \A ip \in IPPool :
             is_ip_blocked(ip) => ~Mentions(validate_feed_error(vres), ip)
       /\ \A ans \in DnsAnswers :
             BlockedTarget(Outcome(varg, vallow, ans))
             => Outcome(varg, vallow, ans).detail = vres.detail

\* the request of this step fails in the transport: no response is had
TransportFails == Requests /\ \A status \in Statuses : ~Response(status)

\* C19: a transport error of the GET at hop k leaves the fetch as
\* httpx.RequestError, which is neither the HTTPException of a rejection nor
\* the ValueError of line 124; the failing request is the k-th and last one:
\* no step follows, so no request is repeated and no lookup is made after
\* it, and the n-th request of a fetch is always that of hop n.
C19_TransportErrorNotRetried ==
    [][/\ TransportFails =>
            /\ outcome'.kind = "httpx.RequestError"
            /\ outcome'.kind \notin {"HTTPException", "ValueError", "response"}
            /\ pc' = "done"
            /\ nreq' = hop.idx /\ nredir' = nredir
            /\ ndns' = ndns /\ npass' = npass
       /\ outcome.kind # "httpx.RequestError"
       /\ outcome'.kind = "httpx.RequestError" => TransportFails
       /\ Requests => nreq' = hop.idx]_vars

\* the request of the third hop failed after two redirects were followed
C19_Witness ==
    /\ pc = "done" /\ outcome.kind = "httpx.RequestError"
    /\ nreq = 3 /\ nredir = 2 /\ hop.idx = 3

\* the local variables of task t, running or suspended
FrameOf(t) == IF t = task THEN Frame ELSE frames[t]

\* lines 479-492: the entries of the feeds in the order of feed_urls
RECURSIVE EntriesUpTo(_)
EntriesUpTo(n) ==
    IF n = 0 THEN <<>>
    ELSE EntriesUpTo(n - 1) \o fetch_feed_entries(FrameOf(n))

all_entries == EntriesUpTo(Len(feed_urls))

\* the URL the validator returns for each feed, and the host of each feed
feed_validated == [t \in Tasks |-> LastPass(feed_urls[t])]

feed_host == [t \in Tasks |-> HostnameOf(feed_urls[t])]

\* what task t has in its locals f comes from its own feed: the URL it
\* validates, the result of its validation, the address it contacted
OwnChain(t, f) ==
    /\ f.pc \notin {"idle", "running"} => f.varg \in {feed_urls[t], f.hop.url}
    /\ f.vres.kind = "accept" => f.vres.url = feed_validated[t]
    /\ f.contacted # None => f.contacted = f.vres.ips[1]
    /\ f.nreq <= f.nredir + 1

\* the request task t is about to issue with the locals f has the redirect
\* counter, the Host header and the pinned address of its own chain
OwnRequest(t, f) ==
    f.pc = "requesting" =>
       /\ f.redirect_count = f.nredir
       /\ f.redirect_count = f.hop.idx - 1
       /\ f.headers_host = feed_host[t]
       /\ HostnameOf(f.current_url) = f.vres.ips[1]

C21_ReturnsUrlGiven ==
    (Returned_direct /\ vres.kind = "accept") => vres.url = Strip(varg)

\* the host is another way of writing the loopback address 127.0.0.1
LoopbackForm(hostname) ==
    hostname \in {Loopback, <<"127", ".", "1">>, HexLoopback}

\* C22: with allow_private=False the validator rejects a URL whose host is
\* the short form 127.1 or the hexadecimal form 0x7f.0x0.0x0.0x1 of the
\* loopback address, as it rejects 127.0.0.1.
C22_LoopbackFormsRejected ==
    (/\ Returned_direct /\ ~vallow
     /\ StartsWithHttp(Strip(varg))
     /\ LoopbackForm(HostnameOf(Strip(varg))))
    => vres.kind = "reject" /\ vres.status = 400

\* the hexadecimal form was read as 127.0.0.1 by the resolver and rejected
C22_Witness ==
    /\ Returned_direct /\ ~vallow
    /\ varg = <<"http://">> \o HexLoopback
    /\ ndns = 1
    /\ vres = Reject(<<"Hostname ">> \o HexLoopback
                     \o <<" resolves to blocked IP address ">> \o Loopback)

\* C23: validate_feed ends every call with a result and raises nothing.
\* When the URL is rejected by the validation (http://192.168.1.1/feed) the
\* result has valid False and an error, and no request was issued; a result
\* without valid has an error; valid is True only when the fetch returned a
\* response that is not an error and the parsed feed has at least one item.
C23_ValidateFeedResult ==
    pc = "done" =>
       \A feed \in Feeds, strict \in BOOLEAN :
          /\ validate_feed_result(feed, strict)
                \in [valid : BOOLEAN, error : Seq(STRING) \cup {None},
                     item_count : 0..2]
          /\ ctx = "feed" =>
                /\ ~validate_feed_result(feed, strict).valid
                /\ validate_feed_result(feed, strict).error \notin {None, <<>>}
                /\ nreq = 0
          /\ ~validate_feed_result(feed, strict).valid =>
                validate_feed_result(feed, strict).error # None
          /\ validate_feed_result(feed, strict).valid =>
                /\ outcome.kind = "response" /\ outcome.status < 400
                /\ feed.items >= 1
                /\ validate_feed_result(feed, strict).item_count = feed.items

\* http://192.168.1.1/feed was rejected by the validation: no request
C23_Witness ==
    /\ pc = "done" /\ ctx = "feed" /\ nreq = 0
    /\ varg = <<"http://", "192", ".", "168", ".", "1", ".", "1", "/", "feed">>
    /\ validate_feed_result([bozo |-> FALSE, items |-> 1], TRUE) =
          [valid |-> FALSE, item_count |-> 0,
           error |-> <<"Access to private IP addresses is not allowed">>]

\* the call was given validated_ips: the validation of its URL was skipped
\* and the first hop is the URL pinned to validated_ips[0]
PinnedCall == ctx = "initial" /\ vres.kind = "none" /\ hop.idx = 1

\* C29: when validate_feed or fetch_feed is given validated_ips, the URL
\* pinned to validated_ips[0] is validated inside _safe_get_with_redirects
\* before the first request: if that address is in a blocked range (10.0.0.1,
\* 127.0.0.1, fe80::1) the call is rejected with status 400 and no request is
\* issued, and no request ever goes to a blocked address.
C29_SuppliedIpChecked ==
    /\ (PinnedCall /\ is_ip_blocked(HostnameOf(hop.url)))
       => /\ nreq = 0 /\ contacted = None
          /\ pc \in {"validating", "done"}
          /\ pc = "done" =>
                /\ outcome.kind = "HTTPException" /\ outcome.status = 400
                /\ \A feed \in Feeds, strict \in BOOLEAN :
                      ~validate_feed_result(feed, strict).valid
    /\ (PinnedCall /\ nreq >= 1) => ~is_ip_blocked(HostnameOf(hop.url))

\* validated_ips = ["10.0.0.1"] was supplied: rejected before any request
C29_Witness ==
    /\ PinnedCall /\ pc = "done" /\ nreq = 0
    /\ hop.url = <<"https://">> \o Priv1 \o <<"/", "feed">>
    /\ headers_host = ExampleCom
    /\ outcome = InvalidInitial(<<"Access to private IP addresses is not allowed">>)


\* a caller constructed the connector with validated_ips absent or empty
ConstructedWithoutIps ==
    /\ ctx = "connector" /\ pc \in {"connected", "done"}
    /\ checked.url # None
    /\ ~Truthy(checked.ips)

\* C24: constructing JellyfinConnector with absent or empty validated_ips
\* raises ValueError, so that no connector without validated_ips exists to
\* issue a request; every request of a connector goes to validated_ips[0]
\* with Host set to the hostname of the server URL.
C24_NoIpsRaisesValueError ==
    /\ ConstructedWithoutIps => outcome = ValueError
    /\ pc = "connected" =>
          /\ Truthy(checked.ips)
          /\ build_url(checked.url, checked.ips, <<"/", "System", "/", "Info">>).kind
                \in {"ValueError", "request"}

\* the session of the user still authenticates a request
LoggedIn == CookieSent(session) /\ TokenValid(session)

\* C25: with the middleware installed a user who keeps making successful
\* requests with gaps shorter than 24 hours is never turned away as
\* unauthenticated, and a session without a request for 24 hours has expired.
C25_ActiveUserStaysLoggedIn ==
    /\ session.active => session.status_code # 401
    /\ (session.exp > 0 /\ session.now - session.last_request >= total_lifetime)
          => ~LoggedIn

\* C26: the API tier is the first tier called and is called once; when it
\* succeeds the result is (segments, "youtube_api") and Whisper is not
\* called; when it fails and Whisper is enabled, Whisper is called once and
\* the result is (segments, "whisper") or RuntimeError; when it fails and
\* Whisper is disabled the result is RuntimeError and Whisper is not called.
C26_TiersInOrder ==
    /\ transcript.calls \in {<<>>, <<"youtube_api">>, <<"youtube_api", "whisper">>}
    /\ transcript.pc = "whisper" =>
          transcript.calls = <<"youtube_api">> /\ transcript.whisper_enabled
    /\ transcript.pc = "done" =>
          IF transcript.api_error = ""
          THEN /\ transcript.calls = <<"youtube_api">>
               /\ transcript.result.kind = "return"
               /\ transcript.result.method = "youtube_api"
          ELSE IF ~transcript.whisper_enabled
          THEN /\ transcript.calls = <<"youtube_api">>
               /\ transcript.result = RuntimeError
          ELSE /\ transcript.calls = <<"youtube_api", "whisper">>
               /\ IF transcript.whisper_error = ""
                  THEN /\ transcript.result.kind = "return"
                       /\ transcript.result.method = "whisper"
                  ELSE transcript.result = RuntimeError

\* the API tier failed and the Whisper tier gave the transcript
C26_Witness ==
    /\ transcript.pc = "done"
    /\ transcript.api_error \in ApiErrors
    /\ transcript.calls = <<"youtube_api", "whisper">>
    /\ transcript.result.method = "whisper"

\* C27: every activation of validate_url_safe_for_ssrf that calls itself does
\* so on a strictly shorter URL, a call runs at most one activation more than
\* its URL is long, and the URL an accepting call returns is unchanged by a further
\* percent-decoding.
C27_RecursionTerminates ==
    [][ /\ (pc = "validating" /\ pc' = "validating" /\ npass' = npass + 1)
              => Len(vurl') < Len(vurl)
        /\ npass' <= Len(varg') + 1
        /\ (pc' = "done" /\ ctx' = "direct" /\ vres'.kind = "accept")
              => unquote(vres'.url) = vres'.url ]_vars

\* https://example.com/a%252fb was decoded twice and accepted by the third
\* activation
C27_Witness ==
    /\ Returned_direct /\ vres.kind = "accept"
    /\ varg = <<"https://", "example", ".", "com", "/", "a", "%", "25", "2f", "b">>
    /\ npass = 3
    /\ vres.url = <<"https://", "example", ".", "com", "/", "a", "/", "b">>

\* how far a fetch has come: before the call, in the initial validation, at
\* the request or in the validation of the redirect of an iteration, at its end
FetchPos ==
    IF pc = "idle" THEN 0
    ELSE IF pc = "done" THEN 2 * max_redirects + 3
    ELSE IF pc = "validating" /\ ctx = "initial" THEN 1
    ELSE IF pc = "requesting" THEN 2 * redirect_count + 2
    ELSE 2 * redirect_count + 3

\* C28: in _safe_get_with_redirects the redirect counter starts at 0, grows
\* by one exactly when a redirect target passed the validation, never
\* decreases and never exceeds max_redirects; the GET requests issued number
\* the counter or the counter plus one, at most max_redirects; every step
\* brings the fetch nearer to its end, and it ends with a response or an
\* error.
C28_CounterBoundsAndTermination ==
    [][/\ redirect_count' \in 0..max_redirects
       /\ nreq' \in {redirect_count', redirect_count' + 1}
       /\ nreq' <= max_redirects
       /\ pc' = "idle" => redirect_count' = 0
       /\ redirect_count' \in {redirect_count, redirect_count + 1}
       /\ redirect_count' = redirect_count + 1
             <=> (pc = "validating" /\ ctx = "redirect" /\ fresh')
       /\ \/ FetchPos' > FetchPos
          \/ FetchPos' = FetchPos /\ Len(vurl') < Len(vurl)
       /\ pc' = "done" => outcome'.kind # "none"]_vars

\* a fetch that followed redirects has ended with a response
C28_Witness ==
    /\ pc = "done" /\ outcome.kind = "response"
    /\ redirect_count = 2 /\ nreq = 3

\* the resolver failed at the last lookup of the call
ResolutionFailed == vans # None /\ (vans = GaiError \/ vans = ResolverError)

\* the last answer of the resolver holds a blocked address
AnswerBlocked == vans # None /\ ~ResolutionFailed /\ FirstBlocked(vans) # 0

\* C30: with allow_private=False a call whose lookup failed, with gaierror
\* or with any other error, is rejected with status 400 and is never
\* accepted, and the rejection of a blocked address of the answer leaves the
\* validator as it was raised.
C30_ResolutionFailsClosed ==
    (Returned_direct /\ ~vallow)
    => /\ ResolutionFailed => vres.kind = "reject" /\ vres.status = 400
       /\ (vans # None /\ vans = GaiError) =>
             vres.detail = <<"Unable to resolve hostname: ">>
                              \o HostnameOf(Strip(vurl))
       /\ AnswerBlocked =>
             vres = Reject(<<"Hostname ">> \o HostnameOf(Strip(vurl))
                           \o <<" resolves to blocked IP address ">>
                           \o vans[FirstBlocked(vans)])

\* the lookup of a domain name raised an unexpected error, the URL was
\* rejected
C30_Witness ==
    /\ Returned_direct /\ ~vallow
    /\ vans # None /\ vans = ResolverError
    /\ IsDomainUrl(varg)
    /\ vres.kind = "reject" /\ vres.status = 400

====
